---- MODULE Spec2Model ----
(***************************************************************************)
(* A model of the h2 HTTP/2 engine (carllerche/h2).                        *)
(*                                                                         *)
(* The module holds several state machines, one per subsystem:             *)
(*   - PingPong            (src/src/proto/ping_pong.rs)     SpecPing       *)
(*   - Connection/Streams  (src/src/proto/connection.rs,                   *)
(*                          src/src/proto/streams.rs)       SpecConn       *)
(*   - the same connection, its send side over two streams  SpecSend       *)
(*   - the same connection, its receive side with stream                   *)
(*     windows below the connection's window                SpecWin        *)
(* Every specification fixes the variables of the other subsystems.        *)
(***************************************************************************)
EXTENDS Integers, Sequences, FiniteSets, TLC

VARIABLES
    \* ---- PingPong<T> and its transport (ping_pong.rs)
    from_socket,        \* Transport.from_socket: frames the peer has sent
    to_socket,          \* Transport.to_socket: frames accepted, not yet drained
    read_blocked,       \* Transport.read_blocked
    start_send_blocked, \* Transport.start_send_blocked
    closing,            \* Transport.closing
    is_closed,          \* PingPong.is_closed
    sending_pongs,      \* PingPong.sending_pongs
    pp_pings,           \* history: payloads of the PINGs (no ACK) read by poll
    pp_wire,            \* history: every frame the transport accepted, in order
    pp_sent,            \* history: number of frames the user handed to start_send
    pp_recvd,           \* history: number of frames the peer has sent
    pp_last,            \* the last PingPong call: what it saw, read, wrote, returned
    \* ---- Connection, Streams, Settings and the codec (connection.rs, streams.rs)
    conn,               \* the Connection: codec, ping_pong, settings, streams
    io_writable,        \* whether the socket under the codec accepts writes
    in_poll,            \* TRUE while a call of Connection::poll is inside its loop
    hist,               \* history: counters of what was received and sent
    conn_last,          \* the last Connection call: input, result, frames written
    \* ---- proto::streams::FlowControl (streams/flow_control.rs)
    flow,               \* one FlowControl: window_size (i32), available (u32)
    flow_last,          \* the last FlowControl call: argument, state before, outcome
    \* ---- Streams<B> and its StreamRef handles (streams/streams.rs)
    eng,                \* Inner: counts, actions (recv, send, task), store
    eng_last,           \* the last Streams/StreamRef call: arguments, state before, result
    \* ---- the server handshake (server.rs)
    hs,                 \* Handshake: its state, the codec's buffer, the socket
    hs_last,            \* the last Handshake::poll: state before, bytes read, result
    \* ---- the codec (codec/framed_read.rs, proto/framed_write.rs, frame/headers.rs)
    rd,                 \* FramedRead: partial, max_header_list_size
    rd_last,            \* the last decode_frame: the frame, the result, the block so far
    wr,                 \* FramedWrite: the frames written, the continuation to come
    wr_last,            \* the last FramedWrite call: the headers given, state before
    \* ---- store::Queue (streams/store.rs)
    queue,              \* the store's records and the indices of one Queue
    queue_last          \* the last push or pop: argument, state before, result

ppVars == <<from_socket, to_socket, read_blocked, start_send_blocked, closing,
            is_closed, sending_pongs, pp_pings, pp_wire, pp_sent, pp_recvd, pp_last>>

connVars == <<conn, io_writable, in_poll, hist, conn_last>>

flowVars == <<flow, flow_last>>

engVars == <<eng, eng_last>>

hsVars == <<hs, hs_last>>

codecVars == <<rd, rd_last, wr, wr_last>>

queueVars == <<queue, queue_last>>

\* the subsystems of the newer source tree
extVars == <<flowVars, engVars, hsVars, codecVars, queueVars>>

\* an object that a specification does not construct
NotBuilt == "none"

IdleCodec == rd = NotBuilt /\ rd_last = NotBuilt /\ wr = NotBuilt /\ wr_last = NotBuilt

IdleQueue == queue = NotBuilt /\ queue_last = NotBuilt

IdleExt ==
    /\ flow = NotBuilt /\ flow_last = NotBuilt
    /\ eng = NotBuilt /\ eng_last = NotBuilt
    /\ hs = NotBuilt /\ hs_last = NotBuilt
    /\ IdleCodec /\ IdleQueue

vars == <<ppVars, connVars, extVars>>

----------------------------------------------------------------------------
(* Bounds of the PingPong model *)

MaxInbound == 2
MaxUserSend == 1

\* PING payloads are opaque 8-byte values; the two the source's tests use
Payloads == {"buoyant?", "buoyant!"}

OtherPayload(p) == CHOOSE q \in Payloads : q /= p

----------------------------------------------------------------------------
(* Frames seen by PingPong: PING frames and everything else *)

Ping_ping(p) == [kind |-> "Ping", ack |-> FALSE, payload |-> p]

Ping_pong_bad(p) == [kind |-> "Ping", ack |-> TRUE, payload |-> OtherPayload(p)]

Ping_pong(p) == [kind |-> "Ping", ack |-> TRUE, payload |-> p]

OtherFrame == [kind |-> "Other", ack |-> FALSE, payload |-> ""]

NoFrame == [kind |-> "None", ack |-> FALSE, payload |-> ""]

\* the end of the inbound byte stream (the peer shut down its sending half);
\* the codec under PingPong yields it as Ready(None)
EndOfInput == [kind |-> "End", ack |-> FALSE, payload |-> ""]

InboundFrames == {Ping_ping(p) : p \in Payloads} \cup {Ping_pong(p) : p \in Payloads}
                 \cup {OtherFrame}

Ping_is_ack(f) == f.ack

----------------------------------------------------------------------------
(* The transport under PingPong *)

\* Transport::poll: "NotReady", "None" (end of stream) or "Some" (front frame)
Transport_poll(fs) ==
    IF read_blocked \/ (~closing /\ fs = <<>>) THEN "NotReady"
    ELSE IF fs = <<>> \/ Head(fs) = EndOfInput THEN "None" ELSE "Some"

\* Transport::start_send accepts the item unless closing or blocked
Transport_can_send == ~(closing \/ start_send_blocked)

\* Transport::poll_complete on a transport holding `ts`
Transport_poll_complete(ts) == IF ts /= <<>> THEN "NotReady" ELSE "Ready"

----------------------------------------------------------------------------
(* PingPong *)

\* send_pongs: pops pongs and hands them to the transport until it refuses.
\* Result: the pongs still pending, the frames written, the poll result.
send_pongs_drop(pongs, ts) ==
    IF pongs = <<>> THEN [pongs |-> pongs, wrote |-> <<>>, res |-> "Ready"]
    ELSE IF Transport_can_send
         THEN [pongs |-> <<>>, wrote |-> <<pongs[1]>>,
               res |-> Transport_poll_complete(ts \o <<pongs[1]>>)]
         ELSE [pongs |-> pongs, wrote |-> <<>>, res |-> "NotReady"]

send_pongs(pongs, ts) ==
    IF pongs = <<>> THEN [pongs |-> pongs, wrote |-> <<>>, res |-> "Ready"]
    ELSE IF Transport_can_send
         THEN [pongs |-> <<>>, wrote |-> pongs,
               res |-> Transport_poll_complete(ts \o pongs)]
         ELSE [pongs |-> pongs, wrote |-> <<>>, res |-> "NotReady"]

\* The loop of PingPong::poll over the frames the transport yields.
RECURSIVE poll_loop(_, _, _, _)
poll_loop(fs, pongs, pings, lastread) ==
    LET r == Transport_poll(fs) IN
    IF r = "Some" THEN
        LET f == Head(fs) IN
        IF f.kind = "Ping" /\ ~Ping_is_ack(f)
        THEN poll_loop(Tail(fs), Append(pongs, Ping_pong(f.payload)),
                       Append(pings, f.payload), f)
        ELSE [fs |-> Tail(fs), pongs |-> pongs, pings |-> pings,
              lastread |-> f, ret |-> "Some", frame |-> f,
              flush |-> FALSE, closed |-> FALSE]
    ELSE [fs |-> fs, pongs |-> pongs, pings |-> pings, lastread |-> lastread,
          ret |-> r, frame |-> NoFrame, flush |-> TRUE, closed |-> (r = "None")]

LastCall(op, lastread, ret, frame, wrote) ==
    [op |-> op, blocked |-> ~Transport_can_send, was_closed |-> is_closed,
     npending |-> Len(sending_pongs), lastread |-> lastread, ret |-> ret, frame |-> frame, wrote |-> wrote]

\* PingPong::poll
PingPong_poll ==
    IF is_closed
    THEN /\ pp_last' = LastCall("poll", NoFrame, "None", NoFrame, <<>>)
         /\ UNCHANGED <<from_socket, to_socket, is_closed, sending_pongs, pp_pings,
                        pp_wire>>
    ELSE LET l == poll_loop(from_socket, sending_pongs, pp_pings, NoFrame)
             s == IF l.flush THEN send_pongs(l.pongs, to_socket)
                  ELSE [pongs |-> l.pongs, wrote |-> <<>>, res |-> "Ready"]
         IN /\ from_socket' = l.fs
            /\ pp_pings' = l.pings
            /\ is_closed' = l.closed
            /\ sending_pongs' = s.pongs
            /\ to_socket' = to_socket \o s.wrote
            /\ pp_wire' = pp_wire \o s.wrote
            /\ pp_last' = LastCall("poll", l.lastread, l.ret, l.frame, s.wrote)

PollPP ==
    /\ PingPong_poll
    /\ UNCHANGED <<read_blocked, start_send_blocked, closing, pp_sent, pp_recvd>>
    /\ UNCHANGED <<connVars, extVars>>

\* PingPong::start_send(item)
PingPong_start_send(item) ==
    LET s == send_pongs(sending_pongs, to_socket) IN
    IF s.res = "NotReady"
    THEN /\ sending_pongs' = s.pongs
         /\ to_socket' = to_socket \o s.wrote
         /\ pp_wire' = pp_wire \o s.wrote
         /\ pp_last' = LastCall("start_send", NoFrame, "NotReady", item, s.wrote)
    ELSE LET ok == Transport_can_send
             w == IF ok THEN s.wrote \o <<item>> ELSE s.wrote
         IN /\ sending_pongs' = s.pongs
            /\ to_socket' = to_socket \o w
            /\ pp_wire' = pp_wire \o w
            /\ pp_last' = LastCall("start_send", NoFrame,
                                   IF ok THEN "Ready" ELSE "NotReady", item, w)

StartSendPP ==
    /\ pp_sent < MaxUserSend
    /\ pp_sent' = pp_sent + 1
    /\ PingPong_start_send(OtherFrame)
    /\ UNCHANGED <<from_socket, read_blocked, start_send_blocked, closing, is_closed,
                   pp_pings, pp_recvd>>
    /\ UNCHANGED <<connVars, extVars>>

\* PingPong::poll_complete
PingPong_poll_complete ==
    LET poll == Transport_poll_complete(to_socket) IN
    IF sending_pongs = <<>>
    THEN /\ pp_last' = LastCall("poll_complete", NoFrame, poll, NoFrame, <<>>)
         /\ UNCHANGED <<sending_pongs, to_socket, pp_wire>>
    ELSE LET s == send_pongs(sending_pongs, to_socket) IN
         /\ sending_pongs' = s.pongs
         /\ to_socket' = to_socket \o s.wrote
         /\ pp_wire' = pp_wire \o s.wrote
         /\ pp_last' = LastCall("poll_complete", NoFrame, s.res, NoFrame, s.wrote)

PollCompletePP ==
    /\ PingPong_poll_complete
    /\ UNCHANGED <<from_socket, read_blocked, start_send_blocked, closing, is_closed,
                   pp_pings, pp_sent, pp_recvd>>
    /\ UNCHANGED <<connVars, extVars>>

\* PingPong::poll_ready
PingPong_poll_ready ==
    pp_last' = LastCall("poll_ready", NoFrame,
                        IF sending_pongs /= <<>> THEN "NotReady" ELSE "Ready",
                        NoFrame, <<>>)

PollReadyPP ==
    /\ pp_last.op /= "poll_ready"
    /\ PingPong_poll_ready
    /\ UNCHANGED <<from_socket, to_socket, read_blocked, start_send_blocked, closing,
                   is_closed, sending_pongs, pp_pings, pp_wire, pp_sent, pp_recvd>>
    /\ UNCHANGED <<connVars, extVars>>

(* The environment of PingPong: the peer and the socket *)

InputEnded == from_socket /= <<>> /\ from_socket[Len(from_socket)] = EndOfInput

PeerSendPP ==
    /\ ~closing
    /\ ~InputEnded
    /\ pp_recvd < MaxInbound
    /\ pp_recvd' = pp_recvd + 1
    /\ \E f \in InboundFrames : from_socket' = Append(from_socket, f)
    /\ UNCHANGED <<to_socket, read_blocked, start_send_blocked, closing, is_closed,
                   sending_pongs, pp_pings, pp_wire, pp_sent, pp_last>>
    /\ UNCHANGED <<connVars, extVars>>

\* the peer shuts down its sending half: the inbound stream ends while the
\* local side may still write
PeerShutdownPP ==
    /\ ~closing
    /\ ~InputEnded
    /\ from_socket' = Append(from_socket, EndOfInput)
    /\ UNCHANGED <<to_socket, read_blocked, start_send_blocked, closing, is_closed,
                   sending_pongs, pp_pings, pp_wire, pp_sent, pp_recvd, pp_last>>
    /\ UNCHANGED <<connVars, extVars>>

SetBlockedPP ==
    /\ start_send_blocked' = ~start_send_blocked
    /\ UNCHANGED <<from_socket, to_socket, read_blocked, closing, is_closed,
                   sending_pongs, pp_pings, pp_wire, pp_sent, pp_recvd, pp_last>>
    /\ UNCHANGED <<connVars, extVars>>

TransportClosePP ==
    /\ ~closing
    /\ closing' = TRUE
    /\ UNCHANGED <<from_socket, to_socket, read_blocked, start_send_blocked, is_closed,
                   sending_pongs, pp_pings, pp_wire, pp_sent, pp_recvd, pp_last>>
    /\ UNCHANGED <<connVars, extVars>>

\* the socket drains the frames it accepted (the tests pop them from to_socket)
DrainPP ==
    /\ to_socket /= <<>>
    /\ to_socket' = <<>>
    /\ UNCHANGED <<from_socket, read_blocked, start_send_blocked, closing, is_closed,
                   sending_pongs, pp_pings, pp_wire, pp_sent, pp_recvd, pp_last>>
    /\ UNCHANGED <<connVars, extVars>>

InitPP ==
    /\ from_socket = <<>>
    /\ to_socket = <<>>
    /\ read_blocked = FALSE
    /\ start_send_blocked = FALSE
    /\ closing = FALSE
    /\ is_closed = FALSE
    /\ sending_pongs = <<>>
    /\ pp_pings = <<>>
    /\ pp_wire = <<>>
    /\ pp_sent = 0
    /\ pp_recvd = 0
    /\ pp_last = [op |-> "new", blocked |-> FALSE, was_closed |-> FALSE,
                  npending |-> 0,
                  lastread |-> NoFrame, ret |-> "Ready", frame |-> NoFrame,
                  wrote |-> <<>>]

NextPing ==
    \/ PollPP
    \/ StartSendPP
    \/ PollCompletePP
    \/ PollReadyPP
    \/ PeerSendPP
    \/ PeerShutdownPP
    \/ SetBlockedPP
    \/ TransportClosePP
    \/ DrainPP


----------------------------------------------------------------------------
(* Claims about PingPong *)

IsPingFrame(f) == f.kind = "Ping"

\* the PING-ACK frames owed for the PINGs read so far, in the order read
OwedPongs == [i \in 1..Len(pp_pings) |->
                [kind |-> "Ping", ack |-> TRUE, payload |-> pp_pings[i]]]

\* the PING frames written so far followed by the pongs still pending
PongsWrittenOrPending == SelectSeq(pp_wire, IsPingFrame) \o sending_pongs

----------------------------------------------------------------------------
(* Connection / Streams: bounds and inputs *)

\* scaled-down stand-in for DEFAULT_INITIAL_WINDOW_SIZE (65_535)
InitWindow == 2
\* largest DATA payload and largest WINDOW_UPDATE increment
MaxData == InitWindow + 1
\* calls that take an input (a frame read, a frame submitted, a window
\* expanded) in one run
MaxOps == 3
\* the same, in the runs of the send side alone
MaxSendOps == 5

\* calls of one run of the receive-window specification
MaxWinOps == 4
\* frames the codec's write buffer holds before it must be flushed
BufCap == 1

\* stream ids in use: odd (client-initiated) and even (server-initiated)
StreamIds == {1, 2, 4}

None == 0

StreamId_is_zero(id) == id = 0

StreamId_is_server_initiated(id) == id % 2 = 0

Frame(kind, id, sz, eos, flag, reason) ==
    [kind |-> kind, id |-> id, sz |-> sz, eos |-> eos, flag |-> flag, reason |-> reason]

\* frame::Headers (flag: is_trailers), frame::Data, frame::Reset,
\* frame::Settings (flag: is_ack), frame::Ping (flag: is_ack), frame::WindowUpdate
Headers(id, eos, trailers) == Frame("Headers", id, 0, eos, trailers, "")
Data(id, sz, eos) == Frame("Data", id, sz, eos, FALSE, "")
Reset(id, reason) == Frame("Reset", id, 0, FALSE, FALSE, reason)
Settings(ack) == Frame("Settings", 0, 0, FALSE, ack, "")
Ping(ack) == Frame("Ping", 0, 0, FALSE, ack, "")
WindowUpdate(id, incr) == Frame("WindowUpdate", id, incr, FALSE, FALSE, "")
PushPromise(id) == Frame("PushPromise", id, 0, FALSE, FALSE, "")
GoAway(last, reason) == Frame("GoAway", last, 0, FALSE, FALSE, reason)
NoInput == Frame("NotReady", 0, 0, FALSE, FALSE, "")
EndInput == Frame("None", 0, 0, FALSE, FALSE, "")

\* what the codec can yield to recv_frame
PeerFrames ==
    {Headers(id, FALSE, FALSE) : id \in StreamIds}
    \cup {Headers(2, TRUE, FALSE), Headers(2, FALSE, TRUE)}
    \cup {Data(2, sz, FALSE) : sz \in 1..MaxData}
    \cup {Data(2, 1, TRUE), Data(1, 1, FALSE)}
    \cup {WindowUpdate(id, 1) : id \in {0, 2}}
    \cup {Settings(a) : a \in BOOLEAN} \cup {Ping(a) : a \in BOOLEAN}
    \cup {Reset(2, "Cancel"), PushPromise(2)}

PeerWindowUpdates == {WindowUpdate(id, 1) : id \in {0, 2}}

\* what the user can hand to Connection::start_send
UserFrames ==
    {Headers(id, FALSE, FALSE) : id \in {1, 2}}
    \cup {Headers(2, TRUE, FALSE)}
    \cup {Data(2, sz, FALSE) : sz \in 1..MaxData}
    \cup {Data(2, 1, TRUE), Data(1, 1, FALSE)}
    \cup {Reset(2, "Cancel"), PushPromise(2)}

\* the windows the user can expand
ExpandIds == {0, 2}

----------------------------------------------------------------------------
(* state::FlowControl *)

FlowControl_new(sz) == [window_size |-> sz, next_window_update |-> 0]

FlowControl_ensure_window(fc, sz) == sz <= fc.window_size

FlowControl_claim_window(fc, sz) == [fc EXCEPT !.window_size = @ - sz]

FlowControl_expand_window(fc, sz) == [fc EXCEPT !.next_window_update = @ + sz]

\* None (0) when no update is pending
FlowControl_peek_window_update(fc) == fc.next_window_update

FlowControl_apply_window_update(fc) ==
    [window_size |-> fc.window_size + fc.next_window_update, next_window_update |-> 0]

----------------------------------------------------------------------------
(* state::Stream: the state of one stream, both directions *)

AwaitingHeaders == [streaming |-> FALSE, fc |-> FlowControl_new(0)]

Streaming(sz) == [streaming |-> TRUE, fc |-> FlowControl_new(sz)]

StreamState(st, local, remote) == [st |-> st, local |-> local, remote |-> remote]

\* the map entry of an id that has no stream record
Vacant == StreamState("Vacant", AwaitingHeaders, AwaitingHeaders)

Stream_default == StreamState("Idle", AwaitingHeaders, AwaitingHeaders)

Stream_closed == StreamState("Closed", AwaitingHeaders, AwaitingHeaders)

Stream_is_closed(s) == s.st = "Closed"

\* [ok, st]: the transition on receiving the peer's first HEADERS
Stream_recv_open(s, sz, eos) ==
    IF s.st = "Idle" THEN
        [ok |-> TRUE,
         st |-> IF eos THEN StreamState("HalfClosedRemote", AwaitingHeaders, AwaitingHeaders)
                ELSE StreamState("Open", AwaitingHeaders, Streaming(sz))]
    ELSE IF s.st = "Open" /\ ~s.remote.streaming THEN
        [ok |-> TRUE,
         st |-> IF eos THEN StreamState("HalfClosedRemote", s.local, AwaitingHeaders)
                ELSE StreamState("Open", s.local, Streaming(sz))]
    ELSE IF s.st = "HalfClosedLocal" /\ ~s.remote.streaming THEN
        [ok |-> TRUE,
         st |-> IF eos THEN Stream_closed
                ELSE StreamState("HalfClosedLocal", AwaitingHeaders, Streaming(sz))]
    ELSE [ok |-> FALSE, st |-> s]

\* [ok, st]: the transition on sending our first HEADERS
Stream_send_open(s, sz, eos) ==
    IF s.st = "Idle" THEN
        [ok |-> TRUE,
         st |-> IF eos THEN StreamState("HalfClosedLocal", AwaitingHeaders, AwaitingHeaders)
                ELSE StreamState("Open", Streaming(sz), AwaitingHeaders)]
    ELSE IF s.st = "Open" /\ ~s.local.streaming THEN
        [ok |-> TRUE,
         st |-> IF eos THEN StreamState("HalfClosedLocal", AwaitingHeaders, s.remote)
                ELSE StreamState("Open", Streaming(sz), s.remote)]
    ELSE IF s.st = "HalfClosedRemote" /\ ~s.local.streaming THEN
        [ok |-> TRUE,
         st |-> IF eos THEN Stream_closed
                ELSE StreamState("HalfClosedRemote", Streaming(sz), AwaitingHeaders)]
    ELSE [ok |-> FALSE, st |-> s]

Stream_recv_close(s) ==
    IF s.st = "Open"
    THEN [ok |-> TRUE, st |-> StreamState("HalfClosedRemote", s.local, AwaitingHeaders)]
    ELSE IF s.st = "HalfClosedLocal" THEN [ok |-> TRUE, st |-> Stream_closed]
    ELSE [ok |-> FALSE, st |-> s]

Stream_send_close(s) ==
    IF s.st = "Open"
    THEN [ok |-> TRUE, st |-> StreamState("HalfClosedLocal", AwaitingHeaders, s.remote)]
    ELSE IF s.st = "HalfClosedRemote" THEN [ok |-> TRUE, st |-> Stream_closed]
    ELSE [ok |-> FALSE, st |-> s]

\* Some(flow) exactly when the peer's side of the stream is streaming
Stream_has_recv_flow_control(s) ==
    s.st \in {"Open", "HalfClosedLocal"} /\ s.remote.streaming

Stream_has_send_flow_control(s) ==
    s.st \in {"Open", "HalfClosedRemote"} /\ s.local.streaming

----------------------------------------------------------------------------
(* The codec's write side (FramedWrite) *)

\* Let(v, F) is F(v) with v evaluated once: the value of one call, named and
\* then used by the code that follows the call
Let(v, F(_)) == CHOOSE out \in {F(r) : r \in {v}} : TRUE

Ret(s, res) == [s |-> s, res |-> res]

FramedWrite_has_capacity(c) == c.buffered < BufCap

\* poll_complete: writes the buffer out when the socket accepts it
FramedWrite_poll_complete(c) ==
    IF c.buffered = 0 THEN Ret(c, "Ready")
    ELSE IF io_writable THEN Ret([c EXCEPT !.buffered = 0], "Ready")
    ELSE Ret(c, "NotReady")

FramedWrite_poll_ready(c) ==
    IF FramedWrite_has_capacity(c) THEN Ret(c, "Ready")
    ELSE Let(FramedWrite_poll_complete(c), LAMBDA f :
             Ret(f.s, IF FramedWrite_has_capacity(f.s) THEN "Ready" ELSE "NotReady"))

\* start_send: the frame is committed to the write buffer, or refused
FramedWrite_start_send(c, frame) ==
    Let(FramedWrite_poll_ready(c), LAMBDA r :
        IF r.res = "Ready"
        THEN Ret([r.s EXCEPT !.buffered = @ + 1, !.wrote = Append(@, frame)], "Ready")
        ELSE Ret(r.s, "NotReady"))

----------------------------------------------------------------------------
(* Streams / Inner (src/src/proto/streams.rs), as functions of the connection
   record `s`; each returns the record after the call and the call's result. *)

NoLimit == -1

Panic(s) == [s EXCEPT !.panicked = TRUE]

Inner_is_local_init(s, id) == s.is_server = StreamId_is_server_initiated(id)

Inner_can_remote_open(s, id) ==
    IF s.is_server THEN FALSE ELSE StreamId_is_server_initiated(id)

Inner_can_local_open(s, id) ==
    IF ~s.is_server THEN FALSE ELSE StreamId_is_server_initiated(id)

\* usize decrement: the build panics on underflow
Inner_stream_closed(s, id) ==
    IF Inner_is_local_init(s, id)
    THEN IF s.num_local_initiated = 0 THEN Panic(s)
         ELSE [s EXCEPT !.num_local_initiated = @ - 1]
    ELSE IF s.num_remote_initiated = 0 THEN Panic(s)
         ELSE [s EXCEPT !.num_remote_initiated = @ - 1]

\* remote_open that counts the stream it refuses
Inner_remote_open_counts_refused(s, id) ==
    IF s.refused /= None THEN Ret(Panic(s), "Panic")
    ELSE IF ~Inner_can_remote_open(s, id) THEN Ret(s, "ProtocolError")
    ELSE IF s.max_remote_initiated /= NoLimit
            /\ s.max_remote_initiated <= s.num_remote_initiated
         THEN Ret([s EXCEPT !.refused = id, !.num_remote_initiated = @ + 1], "Refused")
    ELSE Ret([s EXCEPT !.num_remote_initiated = @ + 1], "Ok")

\* res: "Ok" (the caller inserts Stream::default), "Refused" (Ok(None)) or an error
Inner_remote_open(s, id) ==
    IF s.refused /= None THEN Ret(Panic(s), "Panic")
    ELSE IF ~Inner_can_remote_open(s, id) THEN Ret(s, "ProtocolError")
    ELSE IF s.max_remote_initiated /= NoLimit
            /\ s.max_remote_initiated <= s.num_remote_initiated
         THEN Ret([s EXCEPT !.refused = id], "Refused")
    ELSE Ret([s EXCEPT !.num_remote_initiated = @ + 1], "Ok")

\* the stream's new state is stored; a stream that closed leaves the count
Inner_store(s, id, st) ==
    IF Stream_is_closed(st) THEN Inner_stream_closed([s EXCEPT !.streams[id] = st], id)
    ELSE [s EXCEPT !.streams[id] = st]

Inner_recv_headers(s, id, eos) ==
    Let(Stream_recv_open(s.streams[id], s.init_remote_window_sz, eos), LAMBDA r :
        IF ~r.ok THEN Ret(s, "ProtocolError")
        ELSE Ret(Inner_store(s, id, r.st), "Ok"))

\* unimplemented!()
Inner_recv_trailers(s, id, eos) == Ret(Panic(s), "Panic")

Inner_recv_claimed(s, id, sz) ==
    [s EXCEPT !.streams[id].remote.fc = FlowControl_claim_window(@, sz),
              !.recv_flow_control = FlowControl_claim_window(@, sz)]

Inner_recv_data_unchecked(s, id, sz, eos) ==
    IF ~Stream_has_recv_flow_control(s.streams[id]) THEN Ret(s, "ProtocolError")
    ELSE IF ~eos THEN Ret(Inner_recv_claimed(s, id, sz), "Ok")
    ELSE Let(Stream_recv_close(s.streams[id]), LAMBDA c :
             Ret(Inner_store(Inner_recv_claimed(s, id, sz), id, c.st), "Ok"))

Inner_recv_data_wrong_reason(s, id, sz, eos) ==
    IF ~Stream_has_recv_flow_control(s.streams[id]) THEN Ret(s, "ProtocolError")
    ELSE IF ~FlowControl_ensure_window(s.recv_flow_control, sz)
            \/ ~FlowControl_ensure_window(s.streams[id].remote.fc, sz)
         THEN Ret(s, "ProtocolError")
    ELSE Inner_recv_data_unchecked(s, id, sz, eos)

\* recv_data that claims the connection's window before it asks the stream
Inner_recv_data_connection_first(s, id, sz, eos) ==
    IF ~Stream_has_recv_flow_control(s.streams[id]) THEN Ret(s, "ProtocolError")
    ELSE IF ~FlowControl_ensure_window(s.recv_flow_control, sz)
         THEN Ret(s, "FlowControlError")
    ELSE IF ~FlowControl_ensure_window(s.streams[id].remote.fc, sz)
         THEN Ret([s EXCEPT !.recv_flow_control = FlowControl_claim_window(@, sz)],
                  "FlowControlError")
    ELSE IF ~eos THEN Ret(Inner_recv_claimed(s, id, sz), "Ok")
    ELSE Let(Stream_recv_close(s.streams[id]), LAMBDA c :
             IF ~c.ok THEN Ret(Inner_recv_claimed(s, id, sz), "ProtocolError")
             ELSE Ret(Inner_store(Inner_recv_claimed(s, id, sz), id, c.st), "Ok"))

Inner_recv_data(s, id, sz, eos) ==
    IF ~Stream_has_recv_flow_control(s.streams[id]) THEN Ret(s, "ProtocolError")
    ELSE IF ~FlowControl_ensure_window(s.recv_flow_control, sz)
         THEN Ret(s, "FlowControlError")
    ELSE IF ~FlowControl_ensure_window(s.streams[id].remote.fc, sz)
         THEN Ret(s, "FlowControlError")
    ELSE IF ~eos THEN Ret(Inner_recv_claimed(s, id, sz), "Ok")
    ELSE Let(Stream_recv_close(s.streams[id]), LAMBDA c :
             IF ~c.ok THEN Ret(Inner_recv_claimed(s, id, sz), "ProtocolError")
             ELSE Ret(Inner_store(Inner_recv_claimed(s, id, sz), id, c.st), "Ok"))

\* local_open that counts the stream before it asks whether one more is allowed
Inner_local_open_counts_first(s, id) ==
    IF ~Inner_can_local_open(s, id) THEN Ret(s, "UnexpectedFrameType")
    ELSE IF s.max_local_initiated /= NoLimit
            /\ s.max_local_initiated <= s.num_local_initiated
         THEN Ret([s EXCEPT !.num_local_initiated = @ + 1], "Rejected")
    ELSE Ret([s EXCEPT !.num_local_initiated = @ + 1], "Ok")

Inner_local_open(s, id) ==
    IF ~Inner_can_local_open(s, id) THEN Ret(s, "UnexpectedFrameType")
    ELSE IF s.max_local_initiated /= NoLimit
            /\ s.max_local_initiated <= s.num_local_initiated
         THEN Ret(s, "Rejected")
    ELSE Ret([s EXCEPT !.num_local_initiated = @ + 1], "Ok")

Inner_send_headers(s, id, eos) ==
    Let(Stream_send_open(s.streams[id], s.init_local_window_sz, eos), LAMBDA r :
        IF ~r.ok THEN Ret(s, "UnexpectedFrameType")
        ELSE Ret(Inner_store(s, id, r.st), "Ok"))

\* unimplemented!()
Inner_send_trailers(s, id, eos) == Ret(Panic(s), "Panic")

Inner_send_claimed(s, id, sz) ==
    [s EXCEPT !.streams[id].local.fc = FlowControl_claim_window(@, sz),
              !.send_flow_control = FlowControl_claim_window(@, sz)]

Inner_send_data_any_state(s, id, sz, eos) ==
    IF ~FlowControl_ensure_window(s.send_flow_control, sz)
         THEN Ret(s, "FlowControlViolation")
    ELSE Ret([s EXCEPT !.send_flow_control = FlowControl_claim_window(@, sz)], "Ok")

Inner_send_data(s, id, sz, eos) ==
    IF ~Stream_has_send_flow_control(s.streams[id]) THEN Ret(s, "UnexpectedFrameType")
    ELSE IF ~FlowControl_ensure_window(s.send_flow_control, sz)
         THEN Ret(s, "FlowControlViolation")
    ELSE IF ~FlowControl_ensure_window(s.streams[id].local.fc, sz)
         THEN Ret(s, "FlowControlViolation")
    ELSE IF ~eos THEN Ret(Inner_send_claimed(s, id, sz), "Ok")
    ELSE Let(Stream_send_close(s.streams[id]), LAMBDA c :
             IF ~c.ok THEN Ret(Inner_send_claimed(s, id, sz), "UnexpectedFrameType")
             ELSE Ret(Inner_store(Inner_send_claimed(s, id, sz), id, c.st), "Ok"))

Inner_expand_connection_window(s, sz) ==
    [s EXCEPT !.send_flow_control = FlowControl_expand_window(@, sz)]

Inner_expand_stream_window(s, sz, id) ==
    IF Stream_has_send_flow_control(s.streams[id])
    THEN [s EXCEPT !.streams[id].local.fc = FlowControl_expand_window(@, sz)]
    ELSE s

\* unimplemented!()
Inner_reset(s, id, reason) == Panic(s)

\* res "Ready" carries the update in `update`; "NotReady" carries none
Inner_poll_window_update(s) ==
    IF FlowControl_peek_window_update(s.send_flow_control) /= None
    THEN [s |-> [s EXCEPT !.send_flow_control = FlowControl_apply_window_update(@)],
          res |-> "Ready",
          update |-> WindowUpdate(0, s.send_flow_control.next_window_update)]
    ELSE IF s.pending_recv_window_updates /= <<>>
    THEN LET id == Head(s.pending_recv_window_updates)
             s1 == [s EXCEPT !.pending_recv_window_updates = Tail(@)]
         IN IF s.streams[id] /= Vacant
               /\ Stream_has_send_flow_control(s.streams[id])
               /\ FlowControl_peek_window_update(s.streams[id].local.fc) /= None
            THEN [s |-> [s1 EXCEPT !.streams[id].local.fc =
                                       FlowControl_apply_window_update(@)],
                  res |-> "Ready",
                  update |-> WindowUpdate(id, s.streams[id].local.fc.next_window_update)]
            ELSE [s |-> s1, res |-> "NotReady", update |-> NoInput]
    ELSE [s |-> s, res |-> "NotReady", update |-> NoInput]

Inner_send_pending_refusal(s) ==
    IF s.refused /= None
    THEN Let(FramedWrite_start_send([s EXCEPT !.refused = None],
                                    Reset(s.refused, "RefusedStream")), LAMBDA w :
             IF w.res = "Ready"
             THEN Ret(Inner_reset(w.s, s.refused, "RefusedStream"), "Panic")
             ELSE Ret([w.s EXCEPT !.refused = s.refused], "NotReady"))
    ELSE Ret(s, "Ready")

Inner_send_connection_window_update(s) ==
    IF FlowControl_peek_window_update(s.recv_flow_control) /= None
    THEN Let(FramedWrite_start_send(
                 s, WindowUpdate(0, FlowControl_peek_window_update(s.recv_flow_control))),
             LAMBDA w :
             IF w.res = "Ready"
             THEN Ret([w.s EXCEPT !.recv_flow_control = FlowControl_apply_window_update(@)],
                      "Ready")
             ELSE Ret(w.s, "NotReady"))
    ELSE Ret(s, "Ready")

RECURSIVE Inner_send_stream_window_update(_)
Inner_send_stream_window_update(s) ==
    IF s.pending_send_window_updates = <<>> THEN Ret(s, "Ready")
    ELSE LET id == Head(s.pending_send_window_updates)
             s1 == [s EXCEPT !.pending_send_window_updates = Tail(@)]
             st == s.streams[id]
         IN IF st /= Vacant /\ Stream_has_recv_flow_control(st)
               /\ FlowControl_peek_window_update(st.remote.fc) /= None
            THEN Let(FramedWrite_start_send(
                         s1, WindowUpdate(id, st.remote.fc.next_window_update)),
                     LAMBDA w :
                     IF w.res = "Ready"
                     THEN Inner_send_stream_window_update(
                              [w.s EXCEPT !.streams[id].remote.fc =
                                              FlowControl_apply_window_update(@)])
                     ELSE Ret([w.s EXCEPT !.pending_send_window_updates = <<id>> \o @],
                              "NotReady"))
            ELSE Inner_send_stream_window_update(s1)

Streams_recv_headers(s, frame) ==
    IF StreamId_is_zero(frame.id) THEN Ret(s, "ProtocolError")
    ELSE IF s.streams[frame.id] = Vacant
    THEN IF frame.flag THEN Ret(s, "ProtocolError")
         ELSE Let(Inner_remote_open(s, frame.id), LAMBDA o :
                  IF o.res = "Ok"
                  THEN Inner_recv_headers([o.s EXCEPT !.streams[frame.id] = Stream_default],
                                          frame.id, frame.eos)
                  ELSE o)
    ELSE IF frame.flag THEN Inner_recv_trailers(s, frame.id, frame.eos)
         ELSE Inner_recv_headers(s, frame.id, frame.eos)

Streams_recv_data(s, frame) ==
    IF s.streams[frame.id] = Vacant THEN Ret(s, "ProtocolError")
    ELSE Inner_recv_data(s, frame.id, frame.sz, frame.eos)

\* unimplemented!()
Streams_recv_reset(s, frame) == Ret(Panic(s), "Panic")

\* unimplemented!()
Streams_recv_push_promise(s, frame) == Ret(Panic(s), "Panic")

Streams_recv_window_update(s, frame) ==
    IF StreamId_is_zero(frame.id) THEN Inner_expand_connection_window(s, frame.sz)
    ELSE IF s.streams[frame.id] /= Vacant
         THEN Inner_expand_stream_window(s, frame.sz, frame.id)
         ELSE s

Streams_send_headers(s, frame) ==
    IF StreamId_is_zero(frame.id) THEN Ret(s, "InvalidStreamId")
    ELSE IF s.streams[frame.id] = Vacant
    THEN IF frame.flag THEN Ret(s, "UnexpectedFrameType")
         ELSE Let(Inner_local_open(s, frame.id), LAMBDA o :
                  IF o.res = "Ok"
                  THEN Inner_send_headers([o.s EXCEPT !.streams[frame.id] = Stream_default],
                                          frame.id, frame.eos)
                  ELSE o)
    ELSE IF frame.flag THEN Inner_send_trailers(s, frame.id, frame.eos)
         ELSE Inner_send_headers(s, frame.id, frame.eos)

Streams_send_data(s, frame) ==
    IF s.streams[frame.id] = Vacant THEN Ret(s, "UnexpectedFrameType")
    ELSE Inner_send_data(s, frame.id, frame.sz, frame.eos)

Streams_expand_window(s, id, sz) ==
    IF StreamId_is_zero(id) THEN Inner_expand_connection_window(s, sz)
    ELSE IF s.streams[id] /= Vacant THEN Inner_expand_stream_window(s, sz, id)
         ELSE s

\* window updates with the streams served before the connection
Streams_send_pending_window_updates_streams_first(s) ==
    Let(Inner_send_stream_window_update(s), LAMBDA c :
        IF c.res /= "Ready" THEN c ELSE Inner_send_connection_window_update(c.s))

Streams_send_pending_window_updates(s) ==
    Let(Inner_send_connection_window_update(s), LAMBDA c :
        IF c.res /= "Ready" THEN c ELSE Inner_send_stream_window_update(c.s))

----------------------------------------------------------------------------
(* Settings and PingPong as Connection uses them (send_pending_ack,
   recv_settings, send_pending_pong, recv_ping) *)

Settings_recv_settings(s, frame) ==
    IF frame.flag THEN s ELSE [s EXCEPT !.remaining_acks = @ + 1]

RECURSIVE Settings_send_pending_ack(_)
Settings_send_pending_ack(s) ==
    IF s.remaining_acks = 0 THEN Ret(s, "Ready")
    ELSE Let(FramedWrite_start_send(s, Settings(TRUE)), LAMBDA w :
             IF w.res = "Ready"
             THEN Settings_send_pending_ack([w.s EXCEPT !.remaining_acks = @ - 1])
             ELSE Ret(w.s, "NotReady"))

PingPong_recv_ping(s, frame) ==
    IF frame.flag THEN s ELSE [s EXCEPT !.sending_pong = TRUE]

PingPong_send_pending_pong(s) ==
    IF ~s.sending_pong THEN Ret(s, "Ready")
    ELSE Let(FramedWrite_start_send(s, Ping(TRUE)), LAMBDA w :
             IF w.res = "Ready" THEN Ret([w.s EXCEPT !.sending_pong = FALSE], "Ready")
             ELSE Ret(w.s, "NotReady"))

----------------------------------------------------------------------------
(* Connection (src/src/proto/connection.rs) *)

Connection_new(is_server, max_remote, max_local) ==
    [is_server |-> is_server,
     max_remote_initiated |-> max_remote,
     num_remote_initiated |-> 0,
     init_remote_window_sz |-> InitWindow,
     max_local_initiated |-> max_local,
     num_local_initiated |-> 0,
     init_local_window_sz |-> InitWindow,
     recv_flow_control |-> FlowControl_new(InitWindow),
     send_flow_control |-> FlowControl_new(InitWindow),
     pending_recv_window_updates |-> <<>>,
     pending_send_window_updates |-> <<>>,
     refused |-> None,
     streams |-> [id \in StreamIds |-> Vacant],
     sending_pong |-> FALSE,
     remaining_acks |-> 0,
     buffered |-> 0,
     wrote |-> <<>>,
     panicked |-> FALSE,
     state |-> "Open",
     error |-> "",
     conn_error |-> "",
     stream_errors |-> {},
     last_processed_id |-> 0]

Connection_poll_recv_ready_no_ack(s) ==
    Let(PingPong_send_pending_pong(s), LAMBDA p :
        IF p.res /= "Ready" THEN p
        ELSE Inner_send_pending_refusal(p.s))

Connection_poll_recv_ready(s) ==
    Let(PingPong_send_pending_pong(s), LAMBDA p :
        IF p.res /= "Ready" THEN p
        ELSE Let(Settings_send_pending_ack(p.s), LAMBDA a :
                 IF a.res /= "Ready" THEN a
                 ELSE Inner_send_pending_refusal(a.s)))

Connection_poll_send_ready(s) ==
    Let(Connection_poll_recv_ready(s), LAMBDA r :
        IF r.res /= "Ready" THEN r
        ELSE Streams_send_pending_window_updates(r.s))

Connection_poll_ready(s) ==
    Let(Connection_poll_send_ready(s), LAMBDA r :
        IF r.res /= "Ready" THEN r
        ELSE FramedWrite_poll_ready(r.s))

Connection_poll_complete(s) ==
    Let(Connection_poll_send_ready(s), LAMBDA r :
        IF r.res /= "Ready" THEN r
        ELSE FramedWrite_poll_complete(r.s))

Connection_expand_window(s, id, incr) == Streams_expand_window(s, id, incr)

Connection_poll_window_update(s) == Inner_poll_window_update(s)

\* the write that ends start_send; `assert!(res.is_ready())`
Connection_write_frame(r, frame) ==
    IF r.res /= "Ok" THEN r
    ELSE Let(FramedWrite_start_send(r.s, frame), LAMBDA w :
             IF w.res = "Ready" THEN w ELSE Ret(Panic(w.s), "Panic"))

\* res: "Ready" (accepted), "NotReady" (item handed back), an error, or "Panic"
Connection_start_send(s, item) ==
    Let(Connection_poll_ready(s), LAMBDA r :
        IF r.res /= "Ready" THEN r
        ELSE IF item.kind = "Headers"
        THEN Let(Streams_send_headers(r.s, item), LAMBDA h :
                 Connection_write_frame(h, item))
        ELSE IF item.kind = "Data"
        THEN Let(Streams_send_data(r.s, item), LAMBDA d :
                 Connection_write_frame(d, item))
        ELSE IF item.kind = "Reset" THEN Connection_write_frame(Ret(r.s, "Ok"), item)
        ELSE Ret(Panic(r.s), "Panic"))

\* unimplemented!() for trailers
Connection_convert_poll_message(s, frame) ==
    IF frame.flag THEN Ret(Panic(s), "Panic") ELSE Ret(s, "Frame")

\* what recv_frame does with the frame codec.poll() yielded
Connection_dispatch(s, frame) ==
    IF frame = NoInput
    THEN Let(Connection_poll_complete(s), LAMBDA c :
             Ret(c.s, IF c.res = "Panic" THEN "Panic" ELSE "NotReady"))
    ELSE IF frame = EndInput THEN Ret(s, "None")
    ELSE IF frame.kind = "Headers"
    THEN Let(Streams_recv_headers(s, frame), LAMBDA h :
             IF h.res = "Ok" THEN Connection_convert_poll_message(h.s, frame)
             ELSE IF h.res = "Refused" THEN Ret(h.s, "Continue")
             ELSE h)
    ELSE IF frame.kind = "Data"
    THEN Let(Streams_recv_data(s, frame), LAMBDA d :
             IF d.res = "Ok" THEN Ret(d.s, "Frame") ELSE d)
    ELSE IF frame.kind = "Reset" THEN Streams_recv_reset(s, frame)
    ELSE IF frame.kind = "PushPromise" THEN Streams_recv_push_promise(s, frame)
    ELSE IF frame.kind = "Settings"
    THEN Ret(Settings_recv_settings(s, frame), "Continue")
    ELSE IF frame.kind = "Ping"
    THEN Ret(PingPong_recv_ping(s, frame), "Continue")
    ELSE Ret(Streams_recv_window_update(s, frame), "Continue")

\* recv_frame that reads the codec without asking poll_recv_ready first
Connection_recv_frame_reads_first(s, frame) ==
    Let(Connection_dispatch(s, frame), LAMBDA out :
        [s |-> out.s, res |-> out.res, read |-> TRUE])

\* One pass of the loop of recv_frame, `frame` being what codec.poll() yields
\* once poll_recv_ready allows the read. res: "Continue" (the loop goes on),
\* "Frame" (Ready(Some(frame))), "None" (Ready(None)), "NotReady", an error,
\* or "Panic". `read` tells whether codec.poll() was reached.
Connection_recv_frame(s, frame) ==
    Let(Connection_poll_recv_ready(s), LAMBDA r :
        IF r.res /= "Ready" THEN [s |-> r.s, res |-> r.res, read |-> FALSE]
        ELSE Let(Connection_dispatch(r.s, frame), LAMBDA out :
                 [s |-> out.s, res |-> out.res, read |-> TRUE]))

Errors == {"ProtocolError", "FlowControlError", "UnexpectedFrameType",
           "FlowControlViolation", "Rejected", "InvalidStreamId"}

\* Streams::recv_err (src/src/proto/streams/streams.rs): every stream in the
\* store gets the error, and the connection error is stored for the handles
Streams_recv_err(s, err) ==
    [s EXCEPT !.stream_errors = {id \in StreamIds : s.streams[id] /= Vacant},
              !.conn_error = err]

\* GOAWAY sequencing of the driver: GoAway -> (GOAWAY committed) Flushing ->
\* (write buffer flushed) Errored, where every poll returns the stored reason
Connection_on_error(s, err) ==
    [Streams_recv_err(s, err) EXCEPT !.state = "GoAway", !.error = err]

Connection_send_go_away(s) ==
    IF s.state /= "GoAway" THEN s
    ELSE Let(FramedWrite_start_send(s, GoAway(s.last_processed_id, s.error)), LAMBDA w :
             IF w.res = "Ready" THEN [w.s EXCEPT !.state = "Flushing"] ELSE w.s)

Connection_flush(s) ==
    IF s.state /= "Flushing" THEN s
    ELSE Let(FramedWrite_poll_complete(s), LAMBDA c :
             IF c.res = "Ready" THEN [c.s EXCEPT !.state = "Errored"] ELSE c.s)

Connection_poll_closing(s) ==
    Let(Connection_send_go_away(s), LAMBDA g :
        Let(Connection_flush(g), LAMBDA f :
            Ret(f, IF f.state = "Errored" THEN f.error ELSE "NotReady")))

\* what Connection::poll hands back after one pass of recv_frame
Connection_poll(r, frame) ==
    IF r.res \in Errors
    THEN Connection_poll_closing(Connection_on_error(r.s, r.res))
    ELSE IF r.res = "Frame" /\ frame.kind = "Headers"
            /\ ~Inner_is_local_init(r.s, frame.id)
            /\ frame.id > r.s.last_processed_id
    THEN Ret([r.s EXCEPT !.last_processed_id = frame.id], r.res)
    ELSE Ret(r.s, r.res)

----------------------------------------------------------------------------
(* History of a run: what has been read, accepted and written so far *)

\* payload bytes of the frames of one kind in `frames` (of one stream, or of
\* every stream when ids is the set of all ids)
RECURSIVE SumSz(_, _, _)
SumSz(frames, kind, ids) ==
    IF frames = <<>> THEN 0
    ELSE (IF Head(frames).kind = kind /\ Head(frames).id \in ids
          THEN Head(frames).sz ELSE 0) + SumSz(Tail(frames), kind, ids)

Count(frames, P(_)) == Cardinality({i \in DOMAIN frames : P(frames[i])})

IsSettingsAck(f) == f.kind = "Settings" /\ f.flag

IsRefusal(f) == f.kind = "Reset" /\ f.reason = "RefusedStream"

IsGoAway(f) == f.kind = "GoAway"

HistInit ==
    [n_ops |-> 0, eof |-> FALSE,
     sent_bytes |-> 0, wu0_recv |-> 0,
     recv_bytes |-> [id \in StreamIds |-> 0],
     wu_sent |-> [id \in StreamIds |-> 0],
     n_settings |-> 0, n_acks |-> 0,
     eos_sent |-> {}, refusals |-> <<>>, goaways |-> <<>>]

\* the frames one call committed to the codec
HistWrote(h, wrote) ==
    [h EXCEPT
       !.sent_bytes = @ + SumSz(wrote, "Data", StreamIds),
       !.wu_sent = [id \in StreamIds |->
                      @[id] + SumSz(wrote, "WindowUpdate", {id})],
       !.n_acks = @ + Count(wrote, IsSettingsAck),
       !.eos_sent = @ \cup {wrote[i].id : i \in {j \in DOMAIN wrote :
                               wrote[j].kind \in {"Headers", "Data"} /\ wrote[j].eos}},
       !.refusals = @ \o [i \in 1..Len(SelectSeq(wrote, IsRefusal)) |->
                            SelectSeq(wrote, IsRefusal)[i].id],
       !.goaways = @ \o [i \in 1..Len(SelectSeq(wrote, IsGoAway)) |->
                           SelectSeq(wrote, IsGoAway)[i].reason]]

\* the frame one pass of recv_frame took from the codec
HistRead(h, frame, r) ==
    IF ~r.read THEN h
    ELSE [h EXCEPT
       !.n_ops = IF frame = NoInput \/ h.eof THEN @ ELSE @ + 1,
       !.eof = @ \/ frame = EndInput,
       !.wu0_recv = IF frame.kind = "WindowUpdate" /\ frame.id = 0 THEN @ + frame.sz ELSE @,
       !.recv_bytes = IF frame.kind = "Data" /\ r.res = "Frame"
                      THEN [@ EXCEPT ![frame.id] = @ + frame.sz] ELSE @,
       !.n_settings = IF frame.kind = "Settings" /\ ~frame.flag THEN @ + 1 ELSE @]

\* what a call found when it started, as far as its frame is concerned
Pre(s, frame) ==
    [remaining_acks |-> s.remaining_acks,
     refused |-> s.refused,
     num_remote_initiated |-> s.num_remote_initiated,
     recv_window |-> s.recv_flow_control.window_size,
     stream |-> IF frame.id \in StreamIds THEN s.streams[frame.id] ELSE Vacant,
     eos_sent |-> frame.id \in hist.eos_sent]

Call(op, frame, ret, driver, read, s) ==
    [op |-> op, frame |-> frame, ret |-> ret, driver |-> driver,
     read |-> read, pre |-> Pre(s, frame)]

----------------------------------------------------------------------------
(* The connection driven by its owner: Stream::poll, Sink::start_send,
   Sink::poll_complete, expand_window, poll_window_update; the socket
   becoming writable or not *)

Usable == conn.state = "Open" /\ ~conn.panicked

Fresh(s) == [s EXCEPT !.wrote = <<>>]

\* what codec.poll() can yield to this pass
Inputs(frames, max) ==
    IF Connection_poll_recv_ready(Fresh(conn)).res /= "Ready" THEN {NoInput}
    ELSE IF hist.eof THEN {EndInput}
    ELSE {NoInput} \cup (IF hist.n_ops < max THEN frames ELSE {})

\* Connection::poll, one pass of recv_frame's loop per step; an error moves the
\* connection to GoAway and the same call starts the GOAWAY sequence
PollOf(frames, max) ==
    /\ Usable
    /\ \E frame \in Inputs(frames, max) :
         \E r \in {Connection_recv_frame(Fresh(conn), frame)} :
           \E c \in {Connection_poll(r, frame)} :
             /\ (frame = NoInput \/ hist.eof) => (in_poll \/ c.s /= Fresh(conn))
             /\ conn' = c.s
             /\ in_poll' = (r.res = "Continue")
             /\ hist' = HistWrote(HistRead(hist, frame, r), c.s.wrote)
             /\ conn_last' = Call("poll", frame, r.res, c.res, r.read, conn)
    /\ UNCHANGED io_writable
    /\ UNCHANGED <<ppVars, extVars>>

\* what codec.poll() can yield: a frame of the peer, or the end of the input
PollFrames == PeerFrames \cup {EndInput}

Poll == PollOf(PollFrames, MaxOps)

\* Connection::poll once the connection has failed: the GOAWAY sequence goes
\* on where the failing call left it
PollClosing ==
    /\ conn.state /= "Open" /\ ~conn.panicked
    /\ \E c \in {Connection_poll_closing(conn)} :
         /\ c.s /= conn
         /\ conn' = c.s
         /\ hist' = HistWrote(hist, SubSeq(c.s.wrote, Len(conn.wrote) + 1, Len(c.s.wrote)))
         /\ conn_last' = [conn_last EXCEPT !.driver = c.res]
    /\ UNCHANGED <<io_writable, in_poll>>
    /\ UNCHANGED <<ppVars, extVars>>

StartSendOf(frames, max) ==
    /\ Usable /\ ~in_poll
    /\ hist.n_ops < max
    /\ \E item \in frames :
         \E r \in {Connection_start_send(Fresh(conn), item)} :
           /\ conn' = r.s
           /\ hist' = [HistWrote(hist, r.s.wrote) EXCEPT !.n_ops = @ + 1]
           /\ conn_last' = Call("start_send", item, r.res, "", FALSE, conn)
    /\ UNCHANGED <<io_writable, in_poll>>
    /\ UNCHANGED <<ppVars, extVars>>

StartSend == StartSendOf(UserFrames, MaxOps)

PollComplete ==
    /\ Usable /\ ~in_poll
    /\ \E r \in {Connection_poll_complete(Fresh(conn))} :
         /\ r.s /= Fresh(conn)
         /\ conn' = r.s
         /\ hist' = HistWrote(hist, r.s.wrote)
         /\ conn_last' = Call("poll_complete", NoInput, r.res, "", FALSE, conn)
    /\ UNCHANGED <<io_writable, in_poll>>
    /\ UNCHANGED <<ppVars, extVars>>

ExpandWindowOf(max) ==
    /\ Usable /\ ~in_poll
    /\ hist.n_ops < max
    /\ \E id \in ExpandIds, incr \in {1} :
         /\ conn' = Connection_expand_window(Fresh(conn), id, incr)
         /\ conn_last' = Call("expand_window", WindowUpdate(id, incr), "Ok", "", FALSE, conn)
    /\ hist' = [hist EXCEPT !.n_ops = @ + 1]
    /\ UNCHANGED <<io_writable, in_poll>>
    /\ UNCHANGED <<ppVars, extVars>>

ExpandWindow == ExpandWindowOf(MaxOps)

PollWindowUpdate ==
    /\ Usable /\ ~in_poll
    /\ \E r \in {Connection_poll_window_update(Fresh(conn))} :
         /\ r.s /= Fresh(conn)
         /\ conn' = r.s
         /\ conn_last' = Call("poll_window_update", r.update, r.res, "", FALSE, conn)
    /\ UNCHANGED <<io_writable, in_poll, hist>>
    /\ UNCHANGED <<ppVars, extVars>>

SetWritable ==
    /\ ~in_poll /\ ~conn.panicked /\ conn.state /= "Errored"
    /\ io_writable' = ~io_writable
    /\ UNCHANGED <<conn, in_poll, hist, conn_last>>
    /\ UNCHANGED <<ppVars, extVars>>

Roles == BOOLEAN

Caps == {NoLimit, 1}

InitConn ==
    /\ \E is_server \in Roles, max_remote \in Caps :
         conn = Connection_new(is_server, max_remote, NoLimit)
    /\ io_writable = TRUE
    /\ in_poll = FALSE
    /\ hist = HistInit
    /\ conn_last = Call("new", NoInput, "Ok", "", FALSE, conn)

NextConn ==
    \/ Poll
    \/ PollClosing
    \/ StartSend
    \/ PollComplete
    \/ ExpandWindow
    \/ PollWindowUpdate
    \/ SetWritable

----------------------------------------------------------------------------
(* The specifications: each runs one subsystem and holds the other at rest *)

IdleConn ==
    /\ conn = Connection_new(FALSE, NoLimit, NoLimit)
    /\ io_writable = TRUE
    /\ in_poll = FALSE
    /\ hist = HistInit
    /\ conn_last = Call("new", NoInput, "Ok", "", FALSE, conn)

InitPing == InitPP /\ IdleConn /\ IdleExt

SpecPing == InitPing /\ [][NextPing]_vars

\* the owner keeps calling poll
SpecPingLive == InitPing /\ [][NextPing]_vars /\ WF_vars(PollPP)

InitConnection == InitConn /\ InitPP /\ IdleExt

SpecConn == InitConnection /\ [][NextConn]_vars

\* The send side alone, with room for more calls: the user's frames and
\* window expansions, and the peer's WINDOW_UPDATE frames
SendPoll == PollOf(PeerWindowUpdates, MaxSendOps)

\* what the sending user submits: two streams and their DATA
SendFrames ==
    {Headers(id, FALSE, FALSE) : id \in {2, 4}}
    \cup {Data(2, sz, FALSE) : sz \in 1..MaxData} \cup {Data(4, 1, FALSE)}

SendStartSend == StartSendOf(SendFrames, MaxSendOps)

SendExpandWindow == ExpandWindowOf(MaxSendOps)

NextSend ==
    \/ SendPoll
    \/ SendStartSend
    \/ SendExpandWindow
    \/ PollWindowUpdate
    \/ PollComplete
    \/ SetWritable

SpecSend == InitConnection /\ [][NextSend]_vars

\* The receive side of a client whose streams start with a window of their
\* own (SETTINGS_INITIAL_WINDOW_SIZE), at most the connection's window
InitWin ==
    /\ \E w \in 1..InitWindow :
         conn = [Connection_new(FALSE, NoLimit, NoLimit) EXCEPT !.init_remote_window_sz = w]
    /\ io_writable = TRUE
    /\ in_poll = FALSE
    /\ hist = HistInit
    /\ conn_last = Call("new", NoInput, "Ok", "", FALSE, conn)

\* what the peer sends there: two streams, their DATA, and a SETTINGS whose
\* acknowledgement can fill the write buffer
WinFrames ==
    {Headers(id, FALSE, FALSE) : id \in {2, 4}}
    \cup {Data(2, sz, FALSE) : sz \in 1..MaxData}
    \cup {Data(4, 1, FALSE), Data(2, 1, TRUE), Settings(FALSE)}

WinPoll == PollOf(WinFrames, MaxWinOps)

NextWin ==
    \/ WinPoll
    \/ PollClosing
    \/ SetWritable

InitWindows == InitWin /\ InitPP /\ IdleExt

SpecWin == InitWindows /\ [][NextWin]_vars

----------------------------------------------------------------------------
(* Claims about flow control *)

\* C1: the DATA payload bytes accepted for sending never exceed the initial
\* connection-level send window plus the increments of the WINDOW_UPDATE
\* frames received on stream 0.
C1_SentWithinConnectionWindow ==
    hist.sent_bytes <= InitWindow + hist.wu0_recv

\* C2: on every stream, the DATA payload bytes recv_data accepted never exceed
\* the stream's initial recv window plus the increments of the WINDOW_UPDATE
\* frames sent for that stream.
C2_ReceivedWithinStreamWindow ==
    \A id \in StreamIds :
        hist.recv_bytes[id] <= conn.init_remote_window_sz + hist.wu_sent[id]

\* C2 witness: a DATA frame was accepted that used up the whole window of its
\* stream.
C2_Witness ==
    /\ conn_last.op = "poll" /\ conn_last.frame.kind = "Data"
    /\ conn_last.ret = "Frame"
    /\ hist.recv_bytes[conn_last.frame.id] = conn.init_remote_window_sz

\* an inbound DATA frame was read for a stream that is open for receiving
DataOnOpenStream ==
    /\ conn_last.op = "poll" /\ conn_last.read
    /\ conn_last.frame.kind = "Data"
    /\ conn_last.pre.stream /= Vacant
    /\ Stream_has_recv_flow_control(conn_last.pre.stream)

OverConnectionWindow == conn_last.frame.sz > conn_last.pre.recv_window

OverStreamWindow == conn_last.frame.sz > conn_last.pre.stream.remote.fc.window_size

C4_StreamOverflowIsStreamScoped ==
    (DataOnOpenStream /\ ~OverConnectionWindow /\ OverStreamWindow) =>
        conn.state = "Open" /\ conn.conn_error = ""

----------------------------------------------------------------------------
(* Claims about SETTINGS acknowledgement *)

\* the frames that wait for the acknowledgements: everything but the pongs,
\* the acknowledgements themselves and the refusals of poll_recv_ready
NonPriority(f) ==
    \/ f.kind \in {"Headers", "Data", "WindowUpdate", "GoAway"}
    \/ f.kind = "Reset" /\ ~IsRefusal(f)

AcksBefore(i) == Cardinality({j \in 1..(i - 1) : IsSettingsAck(conn.wrote[j])})

\* C7: every inbound non-ACK SETTINGS gets exactly one SETTINGS ACK; the
\* acknowledgements due when a call starts are all committed to the codec
\* before that call commits any non-priority frame (WINDOW_UPDATE, HEADERS,
\* DATA, the user's RST_STREAM, GOAWAY) and before it reads an inbound frame.
C7_SettingsAckedBeforeAnythingElse ==
    /\ hist.n_acks + conn.remaining_acks = hist.n_settings
    /\ conn_last.read =>
           Count(conn.wrote, IsSettingsAck) = conn_last.pre.remaining_acks
    /\ \A i \in DOMAIN conn.wrote :
           NonPriority(conn.wrote[i]) => AcksBefore(i) = conn_last.pre.remaining_acks

\* C7 witness: start_send found an acknowledgement due and committed it, then
\* the user's HEADERS.
C7_Witness ==
    /\ conn_last.op = "start_send"
    /\ conn_last.pre.remaining_acks = 1
    /\ Len(conn.wrote) = 2
    /\ IsSettingsAck(conn.wrote[1])
    /\ conn.wrote[2].kind = "Headers"
    /\ hist.n_settings = 1 /\ hist.n_acks = 1

----------------------------------------------------------------------------
(* Claims about the life of a stream *)

\* the user submits a frame for a stream on which END_STREAM has been sent
SendAfterEndStream ==
    /\ conn_last.op = "start_send"
    /\ conn_last.pre.eos_sent

NothingWrittenForStream ==
    \A i \in DOMAIN conn.wrote : conn.wrote[i].id /= conn_last.frame.id

\* C8 as stated: once END_STREAM has been sent on a stream, no later DATA,
\* HEADERS or RST_STREAM submitted for it is accepted, and none writes a frame
\* for that stream.
C8_Original ==
    (SendAfterEndStream /\ conn_last.frame.kind \in {"Data", "Headers", "Reset"}) =>
        conn_last.ret /= "Ready" /\ NothingWrittenForStream

\* C8: once END_STREAM has been sent on a stream, no later DATA or HEADERS
\* submitted for it is accepted, and none writes a frame for that stream; a
\* RST_STREAM the user submits is written.
C8_NoDataOrHeadersAfterEndStream ==
    /\ (SendAfterEndStream /\ conn_last.frame.kind \in {"Data", "Headers"}) =>
           conn_last.ret /= "Ready" /\ NothingWrittenForStream
    /\ (SendAfterEndStream /\ conn_last.frame.kind = "Reset"
            /\ conn_last.ret = "Ready") =>
           conn.wrote[Len(conn.wrote)] = conn_last.frame

\* C8 witness: DATA submitted after END_STREAM was turned down with an error.
C8_Witness ==
    /\ SendAfterEndStream
    /\ conn_last.frame.kind = "Data"
    /\ conn_last.ret = "UnexpectedFrameType"
    /\ conn.wrote = <<>>

\* an inbound HEADERS that would open a stream
OpeningHeaders ==
    /\ conn_last.op = "poll" /\ conn_last.read
    /\ conn_last.frame.kind = "Headers" /\ ~conn_last.frame.flag
    /\ conn_last.pre.stream = Vacant

\* the cap on remote-initiated streams was reached when it arrived
CapReached ==
    /\ conn.max_remote_initiated /= NoLimit
    /\ conn.max_remote_initiated <= conn_last.pre.num_remote_initiated

PeerParity(id) == StreamId_is_server_initiated(id) /= conn.is_server

\* C9: with the cap on remote-initiated streams reached, an inbound HEADERS
\* that would open one more creates no stream record, leaves the count as it
\* was and is not delivered; the refusal is pending for that id, each refused
\* id gets one RST_STREAM(REFUSED_STREAM), and the connection goes on running
\* once a refusal has been written.
C9_RefusalLeavesStreamsRunning ==
    /\ (OpeningHeaders /\ PeerParity(conn_last.frame.id) /\ CapReached) =>
           /\ conn_last.ret = "Continue"
           /\ conn.streams[conn_last.frame.id] = Vacant
           /\ conn.num_remote_initiated = conn_last.pre.num_remote_initiated
           /\ conn.refused = conn_last.frame.id
    /\ \A i, j \in DOMAIN hist.refusals :
           hist.refusals[i] = hist.refusals[j] => i = j
    /\ hist.refusals /= <<>> => ~conn.panicked

\* C10: a stream opens by the parity of its id: an inbound HEADERS on a new
\* id is accepted exactly when the id has the peer's parity (odd for a
\* server's peer), and a HEADERS sent on a new id opens it exactly when the id
\* has this endpoint's parity (odd for a client).
C10_OpeningFollowsParity ==
    /\ OpeningHeaders =>
           (conn_last.ret \in {"Frame", "Continue"} <=> PeerParity(conn_last.frame.id))
    /\ (/\ conn_last.op = "start_send"
        /\ conn_last.frame.kind = "Headers"
        /\ conn_last.pre.stream = Vacant
        /\ conn_last.ret \in Errors \cup {"Ready"}) =>
           (conn_last.ret = "Ready" <=> ~PeerParity(conn_last.frame.id))

----------------------------------------------------------------------------
(* proto::streams::FlowControl (src/src/proto/streams/flow_control.rs)     *)

\* the width of the window arithmetic, i32 and u32 (WindowSize) in the source
WinBits == 4

\* (1 << 31) - 1 in the source
MAX_WINDOW_SIZE == 2^(WinBits - 1) - 1

\* a value cast to i32 (two's complement), and to u32
I32(x) == ((x + 2^(WinBits - 1)) % 2^WinBits) - 2^(WinBits - 1)

U32(x) == x % 2^WinBits

\* the mark of an overflowed operation, a number no window can hold
Overflow == 2^(WinBits + 1)

\* the outcomes of an arithmetic operation whose exact result is x and whose
\* wrapped result is w: the exact result when it fits; otherwise the build
\* decides, a panic with overflow checks on, the wrapped value with them off
Arith(x, w) == IF x = w THEN {x} ELSE {w, Overflow}

FlowOut(f, res) == [fc |-> f, res |-> res]

streams_FlowControl_new == [window_size |-> 0, available |-> 0]

FlowControl_window_size(f) == IF f.window_size < 0 THEN 0 ELSE U32(f.window_size)

FlowControl_available(f) == f.available

FlowControl_has_unavailable(f) ==
    IF f.window_size < 0 THEN FALSE ELSE U32(f.window_size) > f.available

FlowControl_claim_capacity(f, capacity) ==
    IF ~(f.available >= capacity)
    THEN {FlowOut(f, "panic")}
    ELSE {FlowOut([f EXCEPT !.available = @ - capacity], "Ok")}

\* assign_capacity without its assertion
FlowControl_assign_capacity_any(f, capacity) ==
    { IF sum = Overflow
      THEN FlowOut(f, "panic")
      ELSE FlowOut([f EXCEPT !.available = sum], "Ok")
      : sum \in Arith(f.available + capacity, U32(f.available + capacity)) }

FlowControl_assign_capacity(f, capacity) ==
    { IF sum = Overflow \/ ~(FlowControl_window_size(f) >= sum)
      THEN FlowOut(f, "panic")
      ELSE FlowOut([f EXCEPT !.available = sum], "Ok")
      : sum \in Arith(f.available + capacity, U32(f.available + capacity)) }

\* no check of the increment: the sum is stored and Ok(()) returned
FlowControl_inc_window(f, sz) ==
    { IF sum = Overflow
      THEN FlowOut(f, "panic")
      ELSE FlowOut([f EXCEPT !.window_size = sum], "Ok")
      : sum \in Arith(f.window_size + I32(sz), I32(f.window_size + I32(sz))) }

FlowControl_send_data(f, sz) ==
    IF ~(sz <= U32(f.window_size))
    THEN {FlowOut(f, "panic")}
    ELSE { IF d = Overflow
           THEN FlowOut(f, "panic")
           ELSE FlowOut([f EXCEPT !.window_size = d], "Ok")
           : d \in Arith(f.window_size - I32(sz), I32(f.window_size - I32(sz))) }

FlowControl_buffer_data(f, sz, err) ==
    IF f.available < sz
    THEN {FlowOut(f, err)}
    ELSE {FlowOut([f EXCEPT !.available = @ - sz], "Ok")}

\* the sizes a caller passes: a WINDOW_UPDATE increment has 31 bits
FlowSizes == 0..MAX_WINDOW_SIZE

FlowCall(op, sz, o) ==
    /\ flow' = o.fc
    /\ flow_last' = [op |-> op, sz |-> sz, pre |-> flow, res |-> o.res]
    /\ UNCHANGED <<ppVars, connVars, engVars, hsVars, codecVars, queueVars>>

\* a panic unwinds the caller: the FlowControl sees no further call
FlowAlive == flow_last.res /= "panic"

FlowIncWindow ==
    /\ FlowAlive
    /\ \E sz \in FlowSizes : \E o \in FlowControl_inc_window(flow, sz) :
         FlowCall("inc_window", sz, o)

FlowAssignCapacity ==
    /\ FlowAlive
    /\ \E sz \in FlowSizes : \E o \in FlowControl_assign_capacity(flow, sz) :
         FlowCall("assign_capacity", sz, o)

FlowClaimCapacity ==
    /\ FlowAlive
    /\ \E sz \in FlowSizes : \E o \in FlowControl_claim_capacity(flow, sz) :
         FlowCall("claim_capacity", sz, o)

FlowSendData ==
    /\ FlowAlive
    /\ \E sz \in FlowSizes : \E o \in FlowControl_send_data(flow, sz) :
         FlowCall("send_data", sz, o)

FlowBufferData ==
    /\ FlowAlive
    /\ \E sz \in FlowSizes : \E o \in FlowControl_buffer_data(flow, sz, "FlowControlError") :
         FlowCall("buffer_data", sz, o)

InitFlow ==
    /\ InitPP /\ IdleConn
    /\ flow = streams_FlowControl_new
    /\ flow_last = [op |-> "new", sz |-> 0, pre |-> flow, res |-> "Ok"]
    /\ eng = NotBuilt /\ eng_last = NotBuilt
    /\ hs = NotBuilt /\ hs_last = NotBuilt
    /\ IdleCodec /\ IdleQueue

NextFlow ==
    \/ FlowIncWindow
    \/ FlowAssignCapacity
    \/ FlowClaimCapacity
    \/ FlowSendData
    \/ FlowBufferData

SpecFlow == InitFlow /\ [][NextFlow]_vars

----------------------------------------------------------------------------
(* Claims about the windows of the newer flow control *)

IncrementOverflows ==
    /\ flow_last.op = "inc_window"
    /\ flow_last.pre.window_size + flow_last.sz > MAX_WINDOW_SIZE

\* C11: an inc_window whose increment would raise the window above the
\* maximum (2^31-1 in the source) is rejected with FLOW_CONTROL_ERROR and
\* leaves the window at its previous value; so the window never exceeds the
\* maximum and an accepted increment is added without wrapping.
C11_OverflowingIncrementRejected ==
    /\ IncrementOverflows =>
           /\ flow_last.res = "FlowControlError"
           /\ flow.window_size = flow_last.pre.window_size
    /\ flow.window_size <= MAX_WINDOW_SIZE
    /\ (flow_last.op = "inc_window" /\ flow_last.res = "Ok") =>
           flow.window_size = flow_last.pre.window_size + flow_last.sz

----------------------------------------------------------------------------
(* Streams<B> and its StreamRef<B> handles                                 *)
(* (src/src/proto/streams/streams.rs).  Recv, Send with its Prioritize,    *)
(* Counts and Stream are not part of the source tree: they are modelled    *)
(* from the specification (4.5, 4.6, 4.7, 5) and from tests/flow_control.rs *)

\* the stream ids in play: 1 and 3 are the client's, 2 is the server's
EngIds == {1, 2, 3}

\* the ids the store has room for: one more request of a client
EngStoreIds == EngIds \cup {5}

\* the initial window of both directions (DEFAULT_INITIAL_WINDOW_SIZE)
EngWindow == 4

\* the calls of one run
MaxEngOps == 5

\* stream::Stream, one record of the store; state is the stream state of 4.6
stream_Stream_new(send_win, recv_win) ==
    [present |-> TRUE, state |-> "Idle", ref_count |-> 0,
     is_pending_open |-> FALSE, is_counted |-> FALSE, send_task |-> FALSE,
     error |-> "",
     send_flow |-> [window_size |-> send_win, available |-> 0],
     requested_send_capacity |-> 0, buffered_send_data |-> 0,
     recv_window |-> recv_win, recv_released |-> 0, in_flight_recv_data |-> 0]

\* a slot of the store that holds no record
NoStream == [stream_Stream_new(0, 0) EXCEPT !.present = FALSE]

State_is_recv_closed(st) == st \in {"Closed", "HalfClosedRemote"}

State_is_send_closed(st) == st \in {"Closed", "HalfClosedLocal", "ReservedRemote"}

State_recv_close(st) ==
    IF st = "Open" THEN "HalfClosedRemote"
    ELSE IF st = "HalfClosedLocal" THEN "Closed" ELSE st

State_send_close(st) ==
    IF st = "Open" THEN "HalfClosedLocal"
    ELSE IF st = "HalfClosedRemote" THEN "Closed" ELSE st

\* Streams::new: Inner with its counts, actions and store; with it the
\* SendRequest handle's `pending` key, the codec (wire: the frames written;
\* writable, io_wait: the socket) and the executor (wake: the tasks that
\* have been notified and not yet polled)
streams_Streams_new(is_server, max_send) ==
    [is_server |-> is_server,
     store |-> [id \in EngStoreIds |-> NoStream],
     num_send_streams |-> 0, max_send_streams |-> max_send,
     send_next_id |-> IF is_server THEN 2 ELSE 1,
     recv_next_id |-> IF is_server THEN 1 ELSE 2,
     last_processed_id |-> 0,
     send_flow |-> [window_size |-> EngWindow, available |-> EngWindow],
     recv_window |-> EngWindow, recv_released |-> 0,
     pending_capacity |-> <<>>, pending_open |-> <<>>, pending_send |-> <<>>,
     pending_window_updates |-> <<>>,
     task |-> FALSE, conn_error |-> "", pending |-> None,
     wire |-> <<>>, writable |-> TRUE, io_wait |-> FALSE, wake |-> {"driver"},
     panicked |-> FALSE, n_ops |-> 0]

\* task.notify() of a task of the executor
Notify(s, t) == [s EXCEPT !.wake = @ \cup {t}]

\* `if let Some(task) = task.take() { task.notify() }` on actions.task
Task_take_notify(s) ==
    IF s.task THEN Notify([s EXCEPT !.task = FALSE], "driver") ELSE s

\* the same on stream.send_task
Stream_notify_send(s, id) ==
    IF s.store[id].send_task
    THEN Notify([s EXCEPT !.store[id].send_task = FALSE], "user") ELSE s

Push(q, id) == IF \E i \in DOMAIN q : q[i] = id THEN q ELSE Append(q, id)

\* Stream::is_closed: both directions closed and nothing left to write
stream_Stream_is_closed(s, id) ==
    /\ s.store[id].state = "Closed"
    /\ \A i \in DOMAIN s.pending_send : s.pending_send[i].id /= id

\* Counts::transition, after its closure has run: a closed stream leaves the
\* count of active streams, and a closed stream without handles leaves the store
Counts_transition_after(s, id) ==
    Let(IF stream_Stream_is_closed(s, id) /\ s.store[id].is_counted
        THEN [s EXCEPT !.store[id].is_counted = FALSE, !.num_send_streams = @ - 1]
        ELSE s, LAMBDA s1 :
        IF stream_Stream_is_closed(s1, id) /\ s1.store[id].ref_count = 0
        THEN [s1 EXCEPT !.store[id] = NoStream]
        ELSE s1)

Counts_transition(r, id) == Ret(Counts_transition_after(r.s, id), r.res)

\* ---- Recv: the receive windows

\* a WINDOW_UPDATE is due for a scope once the capacity released and not yet
\* advertised exceeds half of the scope's window
Recv_is_due(released, window) == released > window \div 2

\* `bad`: the body runs over the content-length of the message, an error of
\* the stream ("StreamProtocolError": RecvError::Stream with PROTOCOL_ERROR)
Recv_recv_data(s, id, sz, eos, bad) ==
    IF State_is_recv_closed(s.store[id].state) \/ s.store[id].state = "Idle"
    THEN Ret(s, "ProtocolError")
    ELSE IF sz > s.recv_window \/ sz > s.store[id].recv_window
    THEN Ret(s, "FlowControlError")
    ELSE IF bad THEN Ret(s, "StreamProtocolError")
    ELSE Ret([s EXCEPT !.recv_window = @ - sz,
                       !.store[id].recv_window = @ - sz,
                       !.store[id].in_flight_recv_data = @ + sz,
                       !.store[id].state = IF eos THEN State_recv_close(@) ELSE @],
             "Ok")

Recv_release_capacity(s, id, capacity) ==
    IF capacity > s.store[id].in_flight_recv_data
    THEN Ret(s, "ReleaseCapacityTooBig")
    ELSE Let([s EXCEPT !.store[id].in_flight_recv_data = @ - capacity,
                       !.recv_released = @ + capacity,
                       !.store[id].recv_released = @ + capacity], LAMBDA s1 :
         Let(IF Recv_is_due(s1.recv_released, s1.recv_window)
             THEN Task_take_notify(s1) ELSE s1, LAMBDA s2 :
         IF Recv_is_due(s2.store[id].recv_released, s2.store[id].recv_window)
         THEN Ret(Task_take_notify(
                    [s2 EXCEPT !.pending_window_updates = Push(@, id)]), "Ok")
         ELSE Ret(s2, "Ok")))

\* the codec takes a frame when the socket takes it (poll_ready, buffer)
Codec_buffer(s, frame) == [s EXCEPT !.wire = Append(@, frame)]

Codec_not_ready(s) == Ret([s EXCEPT !.io_wait = TRUE], "NotReady")

Recv_send_connection_window_update(s) ==
    IF ~Recv_is_due(s.recv_released, s.recv_window) THEN Ret(s, "Ready")
    ELSE IF ~s.writable THEN Codec_not_ready(s)
    ELSE Ret([Codec_buffer(s, WindowUpdate(0, s.recv_released))
                 EXCEPT !.recv_window = @ + s.recv_released,
                        !.recv_released = 0], "Ready")

RECURSIVE Recv_send_stream_window_updates(_)
Recv_send_stream_window_updates(s) ==
    IF ~s.writable THEN Codec_not_ready(s)
    ELSE IF s.pending_window_updates = <<>> THEN Ret(s, "Ready")
    ELSE Let(Head(s.pending_window_updates), LAMBDA id :
         Let([s EXCEPT !.pending_window_updates = Tail(@)], LAMBDA s1 :
         IF ~s1.store[id].present \/ State_is_recv_closed(s1.store[id].state)
            \/ ~Recv_is_due(s1.store[id].recv_released, s1.store[id].recv_window)
         THEN Recv_send_stream_window_updates(s1)
         ELSE Recv_send_stream_window_updates(
                [Codec_buffer(s1, WindowUpdate(id, s1.store[id].recv_released))
                    EXCEPT !.store[id].recv_window = @ + s1.store[id].recv_released,
                           !.store[id].recv_released = 0])))

\* connection first, then the streams in the order they were queued
Recv_poll_complete(s) ==
    Let(Recv_send_connection_window_update(s), LAMBDA r :
        IF r.res /= "Ready" THEN r ELSE Recv_send_stream_window_updates(r.s))

\* ---- Send and its Prioritize: the send windows and the frames to write

Min(a, b) == IF a <= b THEN a ELSE b

\* a FlowControl call on the connection's send window, on a stream's
ConnFlow(s, outs) ==
    Let(CHOOSE o \in outs : TRUE, LAMBDA o :
        [s EXCEPT !.send_flow = o.fc, !.panicked = @ \/ o.res = "panic"])

StreamFlow(s, id, outs) ==
    Let(CHOOSE o \in outs : TRUE, LAMBDA o :
        [s EXCEPT !.store[id].send_flow = o.fc, !.panicked = @ \/ o.res = "panic"])

Send_capacity(s, id) ==
    IF s.store[id].send_flow.available <= s.store[id].buffered_send_data THEN 0
    ELSE s.store[id].send_flow.available - s.store[id].buffered_send_data

\* gives the stream what it still asks for, as far as its own window and
\* the connection's unassigned capacity go; a stream left short of its
\* request while its window has room waits in pending_capacity
Prioritize_try_assign_capacity(s, id) ==
    Let(Min(s.send_flow.available,
            Min(s.store[id].requested_send_capacity - s.store[id].send_flow.available,
                FlowControl_window_size(s.store[id].send_flow)
                    - s.store[id].send_flow.available)), LAMBDA assign :
    Let(IF assign > 0
        THEN Stream_notify_send(
               ConnFlow(StreamFlow(s, id,
                            FlowControl_assign_capacity(s.store[id].send_flow, assign)),
                        FlowControl_claim_capacity(s.send_flow, assign)), id)
        ELSE s, LAMBDA s1 :
        IF /\ s1.store[id].send_flow.available < s1.store[id].requested_send_capacity
           /\ FlowControl_has_unavailable(s1.store[id].send_flow)
        THEN [s1 EXCEPT !.pending_capacity = Push(@, id)]
        ELSE s1))

\* capacity that came (back) to the connection goes to the waiting streams,
\* first come first served
RECURSIVE Prioritize_assign_pending(_)
Prioritize_assign_pending(s) ==
    IF s.send_flow.available = 0 \/ s.pending_capacity = <<>> THEN s
    ELSE Let(Head(s.pending_capacity), LAMBDA id :
         Let([s EXCEPT !.pending_capacity = Tail(@)], LAMBDA s1 :
             IF ~s1.store[id].present THEN Prioritize_assign_pending(s1)
             ELSE Prioritize_assign_pending(Prioritize_try_assign_capacity(s1, id))))

Prioritize_assign_connection_capacity(s, inc) ==
    Prioritize_assign_pending(
        ConnFlow(s, FlowControl_assign_capacity(s.send_flow, inc)))

\* the stream asks for `capacity` on top of what it has buffered; asking for
\* less than before hands the surplus back to the connection
Prioritize_reserve_capacity(s, id, capacity) ==
    Let(capacity + s.store[id].buffered_send_data, LAMBDA target :
        IF target = s.store[id].requested_send_capacity THEN s
        ELSE IF target < s.store[id].requested_send_capacity
        THEN Let([s EXCEPT !.store[id].requested_send_capacity = target], LAMBDA s1 :
                 IF s1.store[id].send_flow.available > target
                 THEN Let(s1.store[id].send_flow.available - target, LAMBDA diff :
                          Prioritize_assign_connection_capacity(
                              StreamFlow(s1, id,
                                  FlowControl_claim_capacity(s1.store[id].send_flow, diff)),
                              diff))
                 ELSE s1)
        ELSE Prioritize_try_assign_capacity(
                 [s EXCEPT !.store[id].requested_send_capacity = target], id))

\* a frame joins the stream's queue; the driver is told unless the stream
\* still waits to be opened
Prioritize_queue_frame(s, frame) ==
    Let([s EXCEPT !.pending_send = Append(@, frame)], LAMBDA s1 :
        IF s1.store[frame.id].is_pending_open THEN s1 ELSE Task_take_notify(s1))

Counts_can_inc_num_send_streams(s) ==
    s.max_send_streams = NoLimit \/ s.num_send_streams < s.max_send_streams

\* Send::open: the next id of this endpoint
Send_open(s) == Ret([s EXCEPT !.send_next_id = @ + 2], s.send_next_id)

\* the stream opens (half-closed if the HEADERS end it); over the peer's
\* MAX_CONCURRENT_STREAMS it is held in pending_open, its frames with it
Send_send_headers(s, id, eos) ==
    IF s.store[id].state /= "Idle" THEN Ret(s, "UnexpectedFrameType")
    ELSE Let([s EXCEPT !.store[id].state = IF eos THEN "HalfClosedLocal" ELSE "Open"],
             LAMBDA s1 :
         Let(IF Counts_can_inc_num_send_streams(s1)
             THEN [s1 EXCEPT !.num_send_streams = @ + 1,
                             !.store[id].is_counted = TRUE]
             ELSE [s1 EXCEPT !.pending_open = Append(@, id),
                             !.store[id].is_pending_open = TRUE], LAMBDA s2 :
             Ret(Prioritize_queue_frame(s2, Headers(id, eos, FALSE)), "Ok")))

\* DATA is buffered against the stream's capacity, asking for more when the
\* data exceeds the request; END_STREAM closes the send side and the stream
\* gives back what it holds beyond its buffered data
Send_send_data(s, id, sz, eos) ==
    IF State_is_send_closed(s.store[id].state) \/ s.store[id].state = "Idle"
    THEN Ret(s, "UnexpectedFrameType")
    ELSE Let([s EXCEPT !.store[id].buffered_send_data = @ + sz], LAMBDA s1 :
         Let(IF s1.store[id].requested_send_capacity < s1.store[id].buffered_send_data
             THEN Prioritize_try_assign_capacity(
                    [s1 EXCEPT !.store[id].requested_send_capacity =
                                   s1.store[id].buffered_send_data], id)
             ELSE s1, LAMBDA s2 :
         Let(IF eos
             THEN Prioritize_reserve_capacity(
                    [s2 EXCEPT !.store[id].state = State_send_close(@)], id, 0)
             ELSE s2, LAMBDA s3 :
             Ret(Prioritize_queue_frame(s3, Data(id, sz, eos)), "Ok"))))

Send_send_trailers(s, id) ==
    IF State_is_send_closed(s.store[id].state) \/ s.store[id].state = "Idle"
    THEN Ret(s, "UnexpectedFrameType")
    ELSE Ret(Prioritize_reserve_capacity(
                 Prioritize_queue_frame(
                     [s EXCEPT !.store[id].state = State_send_close(@)],
                     Headers(id, TRUE, TRUE)), id, 0), "Ok")

\* RST_STREAM: nothing for a stream that is closed already; else the stream
\* closes, its queued frames go, its capacity returns, the reset is queued
Send_send_reset(s, id, reason) ==
    IF s.store[id].state = "Closed" THEN s
    ELSE Let([s EXCEPT !.store[id].state = "Closed",
                       !.store[id].buffered_send_data = 0,
                       !.store[id].is_pending_open = FALSE,
                       !.pending_open = SelectSeq(@, LAMBDA i : i /= id),
                       !.pending_send = SelectSeq(@, LAMBDA f : f.id /= id)],
             LAMBDA s1 :
         Prioritize_queue_frame(Prioritize_reserve_capacity(s1, id, 0),
                                Reset(id, reason)))

Send_ensure_not_idle(s, id) ==
    IF id >= s.send_next_id THEN "ProtocolError" ELSE "Ok"

Recv_ensure_not_idle(s, id) ==
    IF id >= s.recv_next_id THEN "ProtocolError" ELSE "Ok"

\* opens the next stream that waits in pending_open once the count admits
\* it: its frames go to the back of the queue, its task is notified
Prioritize_pop_pending_open(s) ==
    IF ~Counts_can_inc_num_send_streams(s) \/ s.pending_open = <<>> THEN s
    ELSE Let(Head(s.pending_open), LAMBDA id :
         Stream_notify_send(
             [s EXCEPT !.pending_open = Tail(@),
                       !.num_send_streams = @ + 1,
                       !.store[id].is_pending_open = FALSE,
                       !.store[id].is_counted = TRUE,
                       !.pending_send = SelectSeq(@, LAMBDA f : f.id /= id)
                                        \o SelectSeq(@, LAMBDA f : f.id = id)], id))

\* a queued frame can go: the first of its stream, the stream is open on the
\* wire, and DATA has the capacity assigned
Prioritize_is_ready(s, i) ==
    Let(s.pending_send[i], LAMBDA f :
        /\ \A j \in 1..(i - 1) : s.pending_send[j].id /= f.id
        /\ ~s.store[f.id].is_pending_open
        /\ f.kind = "Data" => s.store[f.id].send_flow.available >= f.sz)

\* the frame leaves the queue; DATA consumes the windows
Prioritize_pop_frame(s, i) ==
    Let(s.pending_send[i], LAMBDA f :
    Let([s EXCEPT !.pending_send = SubSeq(@, 1, i - 1) \o SubSeq(@, i + 1, Len(@))],
        LAMBDA s1 :
        IF f.kind = "Data" /\ f.sz > 0
        THEN Let(StreamFlow(s1, f.id,
                     FlowControl_claim_capacity(s1.store[f.id].send_flow, f.sz)),
                 LAMBDA s2 :
             Let(StreamFlow(s2, f.id,
                     FlowControl_send_data(s2.store[f.id].send_flow, f.sz)),
                 LAMBDA s3 :
                 [ConnFlow(s3, FlowControl_send_data(s3.send_flow, f.sz))
                     EXCEPT !.store[f.id].buffered_send_data = @ - f.sz,
                            !.store[f.id].requested_send_capacity = @ - f.sz]))
        ELSE s1))

RECURSIVE Send_poll_complete(_)
Send_poll_complete(s) ==
    IF ~s.writable THEN Codec_not_ready(s)
    ELSE Let(Prioritize_pop_pending_open(s), LAMBDA s1 :
         IF \E i \in DOMAIN s1.pending_send : Prioritize_is_ready(s1, i)
         THEN Let(CHOOSE i \in DOMAIN s1.pending_send :
                      /\ Prioritize_is_ready(s1, i)
                      /\ \A j \in 1..(i - 1) : ~Prioritize_is_ready(s1, j), LAMBDA i :
                  Send_poll_complete(
                      Counts_transition_after(
                          Codec_buffer(Prioritize_pop_frame(s1, i), s1.pending_send[i]),
                          s1.pending_send[i].id)))
         ELSE Ret(s1, "Ready"))

\* the peer's WINDOW_UPDATE: the connection's window grows and the new
\* capacity is assigned; a stream's window grows and the stream is served
Send_recv_connection_window_update(s, inc) ==
    Ret(Prioritize_assign_connection_capacity(
            [s EXCEPT !.send_flow.window_size = @ + inc], inc), "Ok")

Send_recv_stream_window_update(s, id, inc) ==
    IF State_is_send_closed(s.store[id].state) THEN Ret(s, "Ok")
    ELSE Ret(Prioritize_try_assign_capacity(
                 [s EXCEPT !.store[id].send_flow.window_size = @ + inc], id), "Ok")

\* ---- Streams and StreamRef (streams/streams.rs)

\* Recv::open: a server takes the next stream of the client, the last stream
\* of the peer whose HEADERS it has processed; a client has no stream to be
\* opened by HEADERS of the server
Recv_open(s, id) ==
    IF ~s.is_server \/ StreamId_is_server_initiated(id) \/ id < s.recv_next_id
    THEN Ret(s, "ProtocolError")
    ELSE Ret([s EXCEPT !.recv_next_id = id + 2,
                       !.last_processed_id = id,
                       !.store[id] = [stream_Stream_new(EngWindow, EngWindow)
                                         EXCEPT !.state = "Open", !.ref_count = 1]],
             "Ok")

\* Recv::recv_headers on a stream whose receive side is open. `bad`: the
\* header block is malformed, an error of the stream; the user gets no
\* handle to a stream that these HEADERS have opened (`initial`)
Recv_recv_headers(s, id, eos, bad, initial) ==
    IF bad
    THEN Ret(IF initial THEN [s EXCEPT !.store[id].ref_count = 0] ELSE s,
             "StreamProtocolError")
    ELSE Ret(IF eos THEN [s EXCEPT !.store[id].state = State_recv_close(@)] ELSE s,
             "Ok")

\* reset_on_recv_stream_err that hands the error of the stream to the driver
Actions_reset_on_recv_stream_err_passes(r, id) == r

\* Actions::reset_on_recv_stream_err: an error of the stream resets the
\* stream with its reason and is success to the driver
Actions_reset_on_recv_stream_err(r, id) ==
    IF r.res = "StreamProtocolError"
    THEN Ret(Send_send_reset(r.s, id, "ProtocolError"), "Ok")
    ELSE r

streams_Streams_recv_headers(s, id, eos, bad) ==
    Let(IF s.store[id].present THEN Ret(s, "Ok") ELSE Recv_open(s, id), LAMBDA o :
        IF o.res /= "Ok" THEN o
        ELSE IF State_is_recv_closed(o.s.store[id].state) THEN Ret(s, "ProtocolError")
        ELSE Counts_transition(
                 Actions_reset_on_recv_stream_err(
                     Recv_recv_headers(o.s, id, eos, bad, ~s.store[id].present), id),
                 id))

streams_Streams_recv_data(s, id, sz, eos, bad) ==
    IF ~s.store[id].present THEN Ret(s, "ProtocolError")
    ELSE Counts_transition(
             Actions_reset_on_recv_stream_err(Recv_recv_data(s, id, sz, eos, bad), id),
             id)

Actions_ensure_not_idle(s, id) ==
    IF s.is_server = StreamId_is_server_initiated(id)
    THEN Send_ensure_not_idle(s, id)
    ELSE Recv_ensure_not_idle(s, id)

streams_Streams_recv_reset(s, id) ==
    IF StreamId_is_zero(id) THEN Ret(s, "ProtocolError")
    ELSE IF ~s.store[id].present THEN Ret(s, Actions_ensure_not_idle(s, id))
    ELSE Counts_transition(
             Ret([s EXCEPT !.store[id].state = "Closed",
                           !.pending_send = SelectSeq(@, LAMBDA f : f.id /= id)],
                 "Ok"), id)

\* the arm for a stream without a record asks Recv alone whether the id is idle
streams_Streams_recv_window_update(s, id, inc) ==
    IF StreamId_is_zero(id) THEN Send_recv_connection_window_update(s, inc)
    ELSE IF s.store[id].present
    THEN Ret(Send_recv_stream_window_update(s, id, inc).s, "Ok")
    ELSE Ret(s, Recv_ensure_not_idle(s, id))

\* poll_complete that does not track the task
streams_Streams_poll_complete_no_task(s) ==
    Let(Recv_poll_complete(s), LAMBDA r1 :
        IF r1.res /= "Ready" THEN r1 ELSE Send_poll_complete(r1.s))

streams_Streams_poll_complete(s) ==
    Let(Recv_poll_complete(s), LAMBDA r1 :
        IF r1.res /= "Ready" THEN r1
        ELSE Let(Send_poll_complete(r1.s), LAMBDA r2 :
                 IF r2.res /= "Ready" THEN r2
                 ELSE Ret([r2.s EXCEPT !.task = TRUE], "Ready")))

\* the result of send_request: the key of the new stream with it
RetKey(s, res, key) == [s |-> s, res |-> res, key |-> key]

\* send_request that does not ask for a stored connection error
streams_Streams_send_request_unchecked(s, eos, pending) ==
    IF pending /= None /\ s.store[pending].is_pending_open
    THEN RetKey(s, "Rejected", None)
    ELSE IF s.is_server THEN RetKey(s, "UnexpectedFrameType", None)
    ELSE Let(Send_open(s), LAMBDA o :
         Let([o.s EXCEPT !.store[o.res] = stream_Stream_new(EngWindow, EngWindow)],
             LAMBDA s1 :
         Let(Send_send_headers(s1, o.res, eos), LAMBDA r :
             IF r.res /= "Ok" THEN RetKey(r.s, r.res, None)
             ELSE RetKey([r.s EXCEPT !.store[o.res].ref_count = @ + 1], "Ok", o.res))))

streams_Streams_send_request(s, eos, pending) ==
    IF s.conn_error /= "" THEN RetKey(s, s.conn_error, None)
    ELSE IF pending /= None /\ s.store[pending].is_pending_open
    THEN RetKey(s, "Rejected", None)
    ELSE IF s.is_server THEN RetKey(s, "UnexpectedFrameType", None)
    ELSE Let(Send_open(s), LAMBDA o :
         Let([o.s EXCEPT !.store[o.res] = stream_Stream_new(EngWindow, EngWindow)],
             LAMBDA s1 :
         Let(Send_send_headers(s1, o.res, eos), LAMBDA r :
             IF r.res /= "Ok" THEN RetKey(r.s, r.res, None)
             ELSE RetKey([r.s EXCEPT !.store[o.res].ref_count = @ + 1], "Ok", o.res))))

\* poll_pending_open that does not register the calling task
streams_Streams_poll_pending_open_unregistered(s, key) ==
    IF s.conn_error /= "" THEN Ret(s, s.conn_error)
    ELSE IF key /= None /\ s.store[key].is_pending_open THEN Ret(s, "NotReady")
    ELSE Ret(s, "Ready")

streams_Streams_poll_pending_open(s, key) ==
    IF s.conn_error /= "" THEN Ret(s, s.conn_error)
    ELSE IF key /= None /\ s.store[key].is_pending_open
    THEN Ret([s EXCEPT !.store[key].send_task = TRUE], "NotReady")
    ELSE Ret(s, "Ready")

\* client::SendRequest
SendRequest_poll_ready(s) ==
    Let(streams_Streams_poll_pending_open(s, s.pending), LAMBDA r :
        IF r.res /= "Ready" THEN r ELSE Ret([r.s EXCEPT !.pending = None], "Ready"))

\* send_request that does not remember a stream held pending open
SendRequest_send_request_forgets(s, eos) ==
    streams_Streams_send_request(s, eos, s.pending)

SendRequest_send_request(s, eos) ==
    Let(streams_Streams_send_request(s, eos, s.pending), LAMBDA r :
        IF r.res /= "Ok" THEN r
        ELSE IF r.s.store[r.key].is_pending_open
        THEN RetKey([r.s EXCEPT !.pending = r.key], "Ok", r.key)
        ELSE r)

\* send_data that leaves the send side open at END_STREAM
StreamRef_send_data_stays_open(s, id, sz, eos) ==
    Counts_transition(Send_send_data(s, id, sz, FALSE), id)

StreamRef_send_data(s, id, sz, eos) ==
    Counts_transition(Send_send_data(s, id, sz, eos), id)

StreamRef_send_trailers(s, id) == Counts_transition(Send_send_trailers(s, id), id)

StreamRef_send_reset(s, id, reason) ==
    Counts_transition(Ret(Send_send_reset(s, id, reason), "Ok"), id)

\* release_capacity that advertises every release at once, chunk by chunk
StreamRef_release_capacity_per_chunk(s, id, capacity) ==
    Let(Recv_release_capacity(s, id, capacity), LAMBDA r :
        IF r.res /= "Ok" THEN r
        ELSE Ret([Codec_buffer(r.s, WindowUpdate(0, capacity))
                     EXCEPT !.recv_window = @ + capacity,
                            !.recv_released = @ - capacity], "Ok"))

StreamRef_release_capacity(s, id, capacity) == Recv_release_capacity(s, id, capacity)

StreamRef_reserve_capacity(s, id, capacity) ==
    Ret(Prioritize_reserve_capacity(s, id, capacity), "Ok")

StreamRef_capacity(s, id) == Send_capacity(s, id)

StreamRef_clone(s, id) == Ret([s EXCEPT !.store[id].ref_count = @ + 1], "Ok")

\* Drop: the count goes down; the last handle resets the stream unless its
\* receive side is closed
StreamRef_drop(s, id) ==
    Let([s EXCEPT !.store[id].ref_count = @ - 1], LAMBDA s1 :
        Counts_transition(
            Ret(IF s1.store[id].ref_count = 0
                   /\ ~State_is_recv_closed(s1.store[id].state)
                THEN Send_send_reset(s1, id, "Cancel")
                ELSE s1, "Ok"), id))

----------------------------------------------------------------------------
(* The calls of the engine: the user's handles, the peer's frames as the   *)
(* driver dispatches them, and the driver's poll_complete                  *)

EngUsable == eng.n_ops < MaxEngOps /\ ~eng.panicked /\ eng.conn_error = ""

\* a StreamRef to the stream exists
HasHandle(id) == eng.store[id].present /\ eng.store[id].ref_count > 0

\* a step of the engine that is not one of the bounded calls
EngStep(op, id, arg, eos, r) ==
    /\ eng' = r.s
    /\ eng_last' = [op |-> op, id |-> id, arg |-> arg, eos |-> eos, pre |-> eng,
                    res |-> r.res,
                    wrote |-> SubSeq(r.s.wire, Len(eng.wire) + 1, Len(r.s.wire))]
    /\ UNCHANGED <<ppVars, connVars, flowVars, hsVars, codecVars, queueVars>>

EngCall(op, id, arg, eos, r) ==
    EngStep(op, id, arg, eos, Ret([r.s EXCEPT !.n_ops = @ + 1], r.res))

\* a frame from the peer: the driver reads and dispatches it, and goes on
\* to poll_complete in the same poll; a connection error ends the engine
EngRecv(op, id, arg, eos, r) ==
    EngCall(op, id, arg, eos,
            Ret(Notify(IF r.res \in {"ProtocolError", "FlowControlError"}
                       THEN [r.s EXCEPT !.conn_error = r.res] ELSE r.s, "driver"),
                r.res))

EngSizes == 1..2

\* HEADERS and DATA of the peer that are well-formed
EngRecvHeaders ==
    /\ EngUsable
    /\ \E id \in EngIds, eos \in BOOLEAN :
         EngRecv("recv_headers", id, 0, eos,
                 streams_Streams_recv_headers(eng, id, eos, FALSE))

EngRecvData ==
    /\ EngUsable
    /\ \E id \in EngIds, sz \in EngSizes, eos \in BOOLEAN :
         EngRecv("recv_data", id, sz, eos,
                 streams_Streams_recv_data(eng, id, sz, eos, FALSE))

EngRecvReset ==
    /\ EngUsable
    /\ \E id \in EngIds :
         EngRecv("recv_reset", id, 0, FALSE, streams_Streams_recv_reset(eng, id))

WindowUpdateIds == {0} \cup EngIds

EngRecvWindowUpdate ==
    /\ EngUsable
    /\ \E id \in WindowUpdateIds :
         /\ (IF id = 0 THEN eng.send_flow.window_size
             ELSE eng.store[id].send_flow.window_size) < MAX_WINDOW_SIZE
         /\ EngRecv("recv_window_update", id, 1, FALSE,
                    streams_Streams_recv_window_update(eng, id, 1))

\* the driver, polled after a notification
EngPollComplete ==
    /\ ~eng.panicked
    /\ "driver" \in eng.wake
    /\ \E r \in {streams_Streams_poll_complete(
                    [eng EXCEPT !.wake = @ \ {"driver"}])} :
         EngStep("poll_complete", 0, 0, FALSE, r)

\* the socket stops taking writes
EngBlock ==
    /\ EngUsable
    /\ eng.writable
    /\ EngCall("block", 0, 0, FALSE, Ret([eng EXCEPT !.writable = FALSE], "Ok"))

\* the socket takes writes again and wakes the task that waits for it
EngUnblock ==
    /\ ~eng.writable
    /\ EngStep("unblock", 0, 0, FALSE,
               Ret([(IF eng.io_wait THEN Notify(eng, "driver") ELSE eng)
                       EXCEPT !.writable = TRUE, !.io_wait = FALSE], "Ok"))

EngSendRequest ==
    /\ EngUsable
    /\ ~eng.is_server
    /\ \/ eng.send_next_id \in EngIds
       \/ eng.pending /= None /\ eng.store[eng.pending].is_pending_open
    /\ \E eos \in BOOLEAN :
         EngCall("send_request", eng.send_next_id, 0, eos,
                 SendRequest_send_request(eng, eos))

EngPollReady ==
    /\ EngUsable
    /\ \E r \in {SendRequest_poll_ready([eng EXCEPT !.wake = @ \ {"user"}])} :
         EngCall("poll_ready", eng.pending, 0, FALSE, r)

EngSendData ==
    /\ EngUsable
    /\ \E id \in EngIds, sz \in 0..2, eos \in BOOLEAN :
         /\ HasHandle(id)
         /\ EngCall("send_data", id, sz, eos, StreamRef_send_data(eng, id, sz, eos))

EngSendTrailers ==
    /\ EngUsable
    /\ \E id \in EngIds :
         /\ HasHandle(id)
         /\ EngCall("send_trailers", id, 0, TRUE, StreamRef_send_trailers(eng, id))

EngSendReset ==
    /\ EngUsable
    /\ \E id \in EngIds :
         /\ HasHandle(id)
         /\ EngCall("send_reset", id, 0, FALSE, StreamRef_send_reset(eng, id, "Cancel"))

EngReserveCapacity ==
    /\ EngUsable
    /\ \E id \in EngIds, capacity \in 1..EngWindow :
         /\ HasHandle(id)
         /\ EngCall("reserve_capacity", id, capacity, FALSE,
                    StreamRef_reserve_capacity(eng, id, capacity))

EngReleaseCapacity ==
    /\ EngUsable
    /\ \E id \in EngIds, capacity \in EngSizes :
         /\ HasHandle(id)
         /\ EngCall("release_capacity", id, capacity, FALSE,
                    StreamRef_release_capacity(eng, id, capacity))

EngClone ==
    /\ EngUsable
    /\ \E id \in EngIds :
         /\ HasHandle(id)
         /\ EngCall("clone", id, 0, FALSE, StreamRef_clone(eng, id))

EngDrop ==
    /\ EngUsable
    /\ \E id \in EngIds :
         /\ HasHandle(id)
         /\ EngCall("drop", id, 0, FALSE, StreamRef_drop(eng, id))

\* the rest of the system while the engine runs
IdleRest ==
    /\ InitPP /\ IdleConn
    /\ flow = NotBuilt /\ flow_last = NotBuilt
    /\ hs = NotBuilt /\ hs_last = NotBuilt
    /\ IdleCodec /\ IdleQueue

\* the first call record of a run
EngStart ==
    [op |-> "new", id |-> 0, arg |-> 0, eos |-> FALSE, pre |-> eng, res |-> "Ok",
     wrote |-> <<>>]

----------------------------------------------------------------------------
(* The receive windows: a client with two requests answered, its driver idle *)

RecvStart ==
    Let(SendRequest_send_request(streams_Streams_new(FALSE, NoLimit), TRUE).s, LAMBDA s1 :
    Let(SendRequest_send_request(s1, TRUE).s, LAMBDA s2 :
    Let(streams_Streams_poll_complete([s2 EXCEPT !.wake = {}]).s, LAMBDA s3 :
        streams_Streams_recv_headers(
            streams_Streams_recv_headers(s3, 1, FALSE, FALSE).s, 3, FALSE, FALSE).s)))

InitRecv ==
    /\ IdleRest
    /\ eng = RecvStart
    /\ eng_last = EngStart

NextRecv ==
    \/ EngRecvData
    \/ EngReleaseCapacity
    \/ EngPollComplete
    \/ EngBlock
    \/ EngUnblock

SpecRecv == InitRecv /\ [][NextRecv]_vars

\* the driver is polled once it is notified, and a blocked socket takes
\* writes again
SpecRecvLive ==
    InitRecv /\ [][NextRecv]_vars /\ WF_vars(EngPollComplete) /\ WF_vars(EngUnblock)

----------------------------------------------------------------------------
(* Claims about release_capacity *)

\* the stream's WINDOW_UPDATE is due in state p
StreamDue(p, id) ==
    /\ p.store[id].present
    /\ ~State_is_recv_closed(p.store[id].state)
    /\ Recv_is_due(p.store[id].recv_released, p.store[id].recv_window)

ConnDue(p) == Recv_is_due(p.recv_released, p.recv_window)

\* the WINDOW_UPDATE frames a poll_complete owes in state p: the
\* connection's, then those of the queued streams, each with all that was
\* released since the last one
UpdatesOwed(p) ==
    (IF ConnDue(p) THEN <<WindowUpdate(0, p.recv_released)>> ELSE <<>>)
    \o Let(SelectSeq(p.pending_window_updates, LAMBDA id : StreamDue(p, id)), LAMBDA q :
           [i \in DOMAIN q |-> WindowUpdate(q[i], p.store[q[i]].recv_released)])

PollCompleted == eng_last.op = "poll_complete" /\ eng_last.res = "Ready"

DriverWillRun == "driver" \in eng.wake \/ (eng.io_wait /\ ~eng.writable)

\* C14: a release_capacity from a task other than the driver that makes a
\* WINDOW_UPDATE due leaves the driver notified, however the release falls
\* between the driver's polls, and the WINDOW_UPDATE is eventually sent.
C14_ReleaseWakesDriver ==
    /\ [](UpdatesOwed(eng) /= <<>> => DriverWillRun)
    /\ (UpdatesOwed(eng) /= <<>>) ~> (UpdatesOwed(eng) = <<>>)

\* a release finds the driver idle, its task registered, and notifies it
C14_Witness ==
    /\ eng_last.op = "release_capacity"
    /\ eng_last.pre.wake = {} /\ eng_last.pre.task /\ eng_last.pre.writable
    /\ UpdatesOwed(eng_last.pre) = <<>>
    /\ UpdatesOwed(eng) /= <<>>
    /\ "driver" \in eng.wake

----------------------------------------------------------------------------
(* The send windows: a client with two requests open, their bodies to come *)

CapStart ==
    Let(SendRequest_send_request(streams_Streams_new(FALSE, NoLimit), FALSE).s, LAMBDA s1 :
    Let(SendRequest_send_request(s1, FALSE).s, LAMBDA s2 :
        streams_Streams_poll_complete([s2 EXCEPT !.wake = {}]).s))

InitCap ==
    /\ IdleRest
    /\ eng = CapStart
    /\ eng_last = EngStart

\* the calls of a run of SpecCap
MaxCapOps == 3

CapUsable == eng.n_ops < MaxCapOps

NextCap ==
    \/ CapUsable /\ EngReserveCapacity
    \/ CapUsable /\ EngSendData
    \/ CapUsable /\ EngSendTrailers
    \/ CapUsable /\ EngRecvWindowUpdate
    \/ EngPollComplete

SpecCap == InitCap /\ [][NextCap]_vars

----------------------------------------------------------------------------
(* Claims about send capacity handed on when a stream closes *)

\* what the stream still lacks of its request, within its own window
Lack(p, w) ==
    Min(p.store[w].requested_send_capacity - p.store[w].send_flow.available,
        FlowControl_window_size(p.store[w].send_flow)
            - p.store[w].send_flow.available)

\* the stream waits for connection capacity in state p
Waiting(p, w) ==
    /\ p.store[w].present
    /\ Lack(p, w) > 0
    /\ \E i \in DOMAIN p.pending_capacity : p.pending_capacity[i] = w

\* what the user reserved on top of the data already buffered
Reservation(p, w) ==
    p.store[w].requested_send_capacity - p.store[w].buffered_send_data

\* the assigned capacity stream c holds beyond its buffered data when it
\* closes with sz more bytes
Freed(p, c, sz) ==
    IF p.store[c].send_flow.available > p.store[c].buffered_send_data + sz
    THEN p.store[c].send_flow.available - (p.store[c].buffered_send_data + sz)
    ELSE 0

\* what the streams other than c waiting in line before position i still
\* lack
RECURSIVE LackBefore(_, _, _)
LackBefore(p, c, i) ==
    IF i <= 1 THEN 0
    ELSE LackBefore(p, c, i - 1)
         + (IF /\ p.pending_capacity[i - 1] /= c
               /\ Waiting(p, p.pending_capacity[i - 1])
               /\ \A j \in 1..(i - 2) : p.pending_capacity[j] /= p.pending_capacity[i - 1]
            THEN Lack(p, p.pending_capacity[i - 1]) ELSE 0)

\* the first place of w in the line
Place(p, w) ==
    CHOOSE i \in DOMAIN p.pending_capacity :
        /\ p.pending_capacity[i] = w
        /\ \A j \in 1..(i - 1) : p.pending_capacity[j] /= w

ClosingCall ==
    /\ eng_last.op \in {"send_data", "send_trailers"}
    /\ eng_last.eos
    /\ eng_last.res = "Ok"
    /\ Freed(eng_last.pre, eng_last.id, eng_last.arg) > 0

----------------------------------------------------------------------------
(* WINDOW_UPDATE for streams that have come and gone: either endpoint *)

WuStarts == {streams_Streams_new(FALSE, NoLimit), streams_Streams_new(TRUE, NoLimit)}

InitWu ==
    /\ IdleRest
    /\ eng \in WuStarts
    /\ eng_last = EngStart

\* the calls of a run of SpecWu
MaxWuOps == 4

WuUsable == eng.n_ops < MaxWuOps

NextWu ==
    \/ WuUsable /\ EngSendRequest
    \/ WuUsable /\ EngRecvHeaders
    \/ WuUsable /\ EngSendData
    \/ WuUsable /\ EngDrop
    \/ WuUsable /\ EngRecvWindowUpdate
    \/ EngPollComplete

SpecWu == InitWu /\ [][NextWu]_vars

\* the id was never used for a stream: it is not below the next id of the
\* endpoint that initiates ids of its kind
IsIdle(p, id) ==
    IF p.is_server = StreamId_is_server_initiated(id)
    THEN id >= p.send_next_id
    ELSE id >= p.recv_next_id

\* the stream was opened and is closed in both directions, its record kept
\* or released
IsGone(p, id) ==
    /\ ~IsIdle(p, id)
    /\ p.store[id].present => p.store[id].state = "Closed"

StreamWindowUpdate == eng_last.op = "recv_window_update" /\ eng_last.id /= 0

\* C15: a WINDOW_UPDATE for a stream that was opened and has closed, its
\* record released or not and whichever side initiated it, is ignored
\* without a connection error; a WINDOW_UPDATE for a stream id is a
\* connection PROTOCOL_ERROR only when the id is still idle.
C15_ClosedIgnoredIdleRejected ==
    StreamWindowUpdate =>
        /\ IsGone(eng_last.pre, eng_last.id)
               => eng_last.res = "Ok" /\ eng.conn_error = ""
        /\ eng_last.res = "ProtocolError" => IsIdle(eng_last.pre, eng_last.id)

----------------------------------------------------------------------------
(* The handles of a stream: cloned and dropped while the stream runs *)

InitDrop ==
    /\ IdleRest
    /\ eng \in WuStarts
    /\ eng_last = EngStart

\* the calls of a run of SpecDrop
MaxDropOps == 4

DropUsable == eng.n_ops < MaxDropOps

NextDrop ==
    \/ DropUsable /\ EngSendRequest
    \/ DropUsable /\ EngRecvHeaders
    \/ DropUsable /\ EngSendData
    \/ DropUsable /\ EngRecvReset
    \/ DropUsable /\ EngClone
    \/ DropUsable /\ EngDrop
    \/ EngPollComplete

SpecDrop == InitDrop /\ [][NextDrop]_vars

\* the RST_STREAM(CANCEL) frames queued for the stream in state p
ResetsQueued(p, id) ==
    Len(SelectSeq(p.pending_send,
                  LAMBDA f : f.kind = "Reset" /\ f.id = id /\ f.reason = "Cancel"))

\* C16: dropping the last handle of a stream that is not yet closed (either
\* direction still open) queues RST_STREAM(CANCEL) for it exactly once;
\* dropping a handle of a closed stream, or while other handles remain,
\* queues and sends nothing.
C16_LastDropResetsOpenStream ==
    eng_last.op = "drop" =>
        /\ eng_last.wrote = <<>>
        /\ ResetsQueued(eng, eng_last.id)
               = ResetsQueued(eng_last.pre, eng_last.id)
                 + (IF /\ eng_last.pre.store[eng_last.id].ref_count = 1
                       /\ eng_last.pre.store[eng_last.id].state /= "Closed"
                    THEN 1 ELSE 0)

----------------------------------------------------------------------------
(* Opening streams under the peer's MAX_CONCURRENT_STREAMS: a client and its
   SendRequest handle *)

OpenStarts == {streams_Streams_new(FALSE, 0), streams_Streams_new(FALSE, 1)}

InitOpen ==
    /\ IdleRest
    /\ eng \in OpenStarts
    /\ eng_last = EngStart

\* the calls of a run of SpecOpen
MaxOpenOps == 5

OpenUsable == eng.n_ops < MaxOpenOps

NextOpen ==
    \/ OpenUsable /\ EngSendRequest
    \/ OpenUsable /\ EngPollReady
    \/ OpenUsable /\ EngRecvHeaders
    \/ OpenUsable /\ EngSendData
    \/ OpenUsable /\ EngRecvReset
    \/ EngPollComplete

SpecOpen == InitOpen /\ [][NextOpen]_vars

\* the stream's HEADERS are on the wire
OnWire(p, id) ==
    \E i \in DOMAIN p.wire :
        p.wire[i].kind = "Headers" /\ p.wire[i].id = id /\ ~p.wire[i].flag

\* the locally initiated streams open on the wire: HEADERS sent, the stream
\* not yet closed with its last frame written
WireOpen(p) ==
    {id \in EngIds : /\ ~StreamId_is_server_initiated(id)
                     /\ OnWire(p, id)
                     /\ p.store[id].present
                     /\ ~stream_Stream_is_closed(p, id)}

AtSendCap(p) == Cardinality(WireOpen(p)) >= p.max_send_streams

\* the handle's previous request still waits to be opened
HandlePending(p) == p.pending /= None /\ p.store[p.pending].is_pending_open

RequestAtCap == eng_last.op = "send_request" /\ AtSendCap(eng_last.pre)

PollReadyAnswer ==
    eng_last.op = "poll_ready" =>
        IF HandlePending(eng_last.pre)
        THEN /\ eng_last.res = "NotReady"
             /\ eng.store[eng_last.pre.pending].send_task
             /\ eng.pending = eng_last.pre.pending
        ELSE /\ eng_last.res = "Ready"
             /\ eng.pending = None

\* a task registered on a stream waits for a stream that is still held
NoWaiterForgotten ==
    \A id \in EngIds : eng.store[id].send_task => eng.store[id].is_pending_open

\* the step that ends the holding of a stream notifies the task registered
NotifiedWhenOpened ==
    \A id \in EngIds :
        (eng.store[id].send_task /\ ~eng'.store[id].is_pending_open)
            => "user" \in eng'.wake

\* C18: poll_ready returns NotReady exactly while the handle's previous
\* request is still pending open, and registers the calling task on that
\* stream; the registered task is notified by the step that opens the stream
\* (after an existing stream closed), never dropped before; a poll_ready
\* after that returns Ready and clears the handle's pending marker.
C18_PendingOpenNotifiesPollReady ==
    /\ [](PollReadyAnswer /\ NoWaiterForgotten)
    /\ [][NotifiedWhenOpened]_vars

\* the task was told to wait, was notified when the stream opened, and its
\* next poll_ready is Ready
C18_Witness ==
    /\ eng_last.op = "poll_ready" /\ eng_last.res = "Ready"
    /\ eng_last.pre.pending = 3
    /\ "user" \in eng_last.pre.wake
    /\ OnWire(eng, 3)
    /\ eng.pending = None

----------------------------------------------------------------------------
(* server::Handshake: the initial SETTINGS flushed, then the client preface
   read from the socket *)

PREFACE ==
    <<80, 82, 73, 32, 42, 32, 72, 84, 84, 80, 47, 50, 46, 48, 13, 10, 13, 10,
      83, 77, 13, 10, 13, 10>>

\* the bytes of the initial SETTINGS frame, the bytes the socket holds unread
SettingsLen == 2
InboxCap == 3

\* the preface with one octet changed
Corrupt(k) == [PREFACE EXCEPT ![k] = (@ + 1) % 256]

PrefaceCuts == {0, 23}

\* what a client may send: the preface, the preface and the start of a
\* frame, a preface wrong in one octet, a preface cut short
HsBytes ==
    {PREFACE, PREFACE \o <<0, 0>>}
        \cup {Corrupt(k) : k \in DOMAIN PREFACE}
        \cup {SubSeq(PREFACE, 1, k) : k \in PrefaceCuts}

\* handshake2: the codec with the SETTINGS frame buffered, state Flushing
Server_handshake2(bytes) ==
    [state |-> "Flushing", pos |-> 0,
     unflushed |-> SettingsLen, written |-> 0,
     to_arrive |-> bytes, inbox |-> <<>>, eof |-> FALSE, broken |-> FALSE,
     taken |-> <<>>, connection |-> FALSE, done |-> FALSE, outcome |-> "NotReady"]

\* Flush::poll: the codec writes what the socket takes
Flush_poll(h, room) ==
    IF h.broken THEN Ret(h, "IoError")
    ELSE Let(Min(room, h.unflushed), LAMBDA w :
             Ret([h EXCEPT !.unflushed = @ - w, !.written = @ + w],
                 IF w = h.unflushed THEN "Ready" ELSE "NotReady"))

ReadPreface_new(h) == [h EXCEPT !.state = "ReadingPreface", !.pos = 0]

\* ReadPreface::poll that takes what is there unchecked
ReadPreface_poll_unchecked(h) ==
    Let(Min(Len(PREFACE) - h.pos, Len(h.inbox)), LAMBDA n :
        {Ret([h EXCEPT !.inbox = SubSeq(@, n + 1, Len(@)),
                       !.taken = @ \o SubSeq(h.inbox, 1, n),
                       !.pos = @ + n],
             IF h.pos + n = Len(PREFACE) THEN "Ready" ELSE "NotReady")})

\* ReadPreface::poll: reads of up to rem bytes, each compared with the
\* preface at pos, until the preface is complete; a read may return fewer
\* bytes than the socket holds; a read of 0 bytes at end of input compares
\* equal and the loop goes on without end
RECURSIVE ReadPreface_poll(_)
ReadPreface_poll(h) ==
    IF Len(PREFACE) - h.pos = 0 THEN {Ret(h, "Ready")}
    ELSE IF h.broken THEN {Ret(h, "IoError")}
    ELSE IF h.inbox = <<>>
    THEN {Ret(h, IF h.eof THEN "Diverges" ELSE "NotReady")}
    ELSE UNION {
           Let([h EXCEPT !.inbox = SubSeq(@, n + 1, Len(@)),
                         !.taken = @ \o SubSeq(h.inbox, 1, n)], LAMBDA h1 :
               IF SubSeq(PREFACE, h.pos + 1, h.pos + n) /= SubSeq(h.inbox, 1, n)
               THEN {Ret(h1, "ProtocolError")}
               ELSE ReadPreface_poll([h1 EXCEPT !.pos = @ + n]))
           : n \in 1..Min(Len(PREFACE) - h.pos, Len(h.inbox))}

\* the end of Handshake::poll: Connection::new on Ready
Handshake_finish(o) ==
    Ret([o.s EXCEPT !.connection = o.res = "Ready",
                    !.done = o.res /= "NotReady",
                    !.outcome = o.res], o.res)

\* Handshake::poll that reads the preface while the flush is pending
Handshake_poll_eager(h, room) ==
    IF h.state = "Flushing"
    THEN Let(Flush_poll(h, room), LAMBDA f :
             IF f.res = "IoError" THEN {Handshake_finish(f)}
             ELSE {Handshake_finish(o) : o \in ReadPreface_poll(ReadPreface_new(f.s))})
    ELSE {Handshake_finish(o) : o \in ReadPreface_poll(h)}

Handshake_poll(h, room) ==
    IF h.state = "Flushing"
    THEN Let(Flush_poll(h, room), LAMBDA f :
             IF f.res /= "Ready" THEN {Handshake_finish(f)}
             ELSE {Handshake_finish(o) : o \in ReadPreface_poll(ReadPreface_new(f.s))})
    ELSE {Handshake_finish(o) : o \in ReadPreface_poll(h)}

HsStep(op, r) ==
    /\ hs' = r.s
    /\ hs_last' = [op |-> op, pre |-> hs, res |-> r.res]
    /\ UNCHANGED <<ppVars, connVars, flowVars, engVars, codecVars, queueVars>>

\* the task polls the handshake future until it resolves
HsPoll ==
    /\ ~hs.done
    /\ \E room \in 0..SettingsLen :
         \E r \in Handshake_poll(hs, room) : HsStep("poll", r)

\* bytes of the client reach the socket
HsArrive ==
    /\ hs.to_arrive /= <<>>
    /\ \E n \in 1..Min(Len(hs.to_arrive), InboxCap - Len(hs.inbox)) :
         HsStep("arrive",
                Ret([hs EXCEPT !.inbox = @ \o SubSeq(hs.to_arrive, 1, n),
                               !.to_arrive = SubSeq(@, n + 1, Len(@))], "Ok"))

\* the client closes its side after its last byte
HsEof ==
    /\ hs.to_arrive = <<>> /\ ~hs.eof
    /\ HsStep("eof", Ret([hs EXCEPT !.eof = TRUE], "Ok"))

\* the socket fails
HsBreak ==
    /\ ~hs.broken /\ ~hs.done
    /\ HsStep("break", Ret([hs EXCEPT !.broken = TRUE], "Ok"))

HsStarts == {Server_handshake2(bytes) : bytes \in HsBytes}

InitHs ==
    /\ InitPP /\ IdleConn
    /\ flow = NotBuilt /\ flow_last = NotBuilt
    /\ eng = NotBuilt /\ eng_last = NotBuilt
    /\ IdleCodec /\ IdleQueue
    /\ hs \in HsStarts
    /\ hs_last = [op |-> "new", pre |-> hs, res |-> "Ok"]

NextHs ==
    \/ HsPoll
    \/ HsArrive
    \/ HsEof
    \/ HsBreak

SpecHs == InitHs /\ [][NextHs]_vars

----------------------------------------------------------------------------
(* Claims about the server handshake *)

IsPrefix(a, b) == Len(a) <= Len(b) /\ a = SubSeq(b, 1, Len(a))

\* C19: the handshake succeeds only if the first 24 bytes received are the
\* client preface octet for octet, however they are split across reads and
\* polls, and does succeed in the poll that takes the 24th; the read that
\* brings a byte differing from the preface fails the handshake with
\* PROTOCOL_ERROR, and nothing else does; no byte beyond the 24th is taken.
C19_PrefaceMatchedOctetForOctet ==
    /\ hs.connection => hs.taken = PREFACE
    /\ hs.taken = PREFACE => hs.connection
    /\ Len(hs.taken) <= Len(PREFACE)
    /\ IsPrefix(SubSeq(hs.taken, 1, hs.pos), PREFACE)
    /\ ~IsPrefix(hs.taken, PREFACE) <=> hs.outcome = "ProtocolError"
    /\ (hs_last.op = "poll" /\ hs_last.res = "ProtocolError")
           => IsPrefix(hs_last.pre.taken, PREFACE)

\* the preface came in over several polls and bytes of the first frame wait
\* unread behind it
C19_Witness ==
    /\ hs.connection
    /\ hs_last.pre.pos > 0
    /\ hs.inbox /= <<>>

\* the stage of the handshake
Stage(h) ==
    IF h.connection THEN 3 ELSE IF h.state = "ReadingPreface" THEN 2 ELSE 1

HandshakeStages ==
    /\ hs.state \in {"Flushing", "ReadingPreface"}
    /\ hs.state = "Flushing" => hs.taken = <<>> /\ hs.pos = 0 /\ ~hs.connection
    /\ hs.state = "ReadingPreface" => hs.unflushed = 0
    /\ hs.taken /= <<>> => hs.unflushed = 0 /\ hs.written = SettingsLen
    /\ hs.connection =>
           /\ hs.state = "ReadingPreface"
           /\ hs.pos = Len(PREFACE)
           /\ hs.taken = PREFACE
           /\ hs.done /\ hs.outcome = "Ready"

\* C20: the handshake goes Flushing, ReadingPreface, established and never
\* back: no preface byte is read before the initial SETTINGS frame is
\* flushed completely, and the connection is created only after the whole
\* preface has matched.
C20_HandshakeInOrder ==
    /\ []HandshakeStages
    /\ [][Stage(hs') >= Stage(hs)]_vars

\* the flush took more than one poll; the poll that completes it goes on to
\* read preface bytes
C20_Witness ==
    /\ hs_last.op = "poll"
    /\ hs_last.pre.state = "Flushing" /\ hs_last.pre.written > 0
    /\ hs.state = "ReadingPreface"
    /\ hs.taken /= <<>>

----------------------------------------------------------------------------
(* A connection-level error: Streams::recv_err, and the handles after it *)

\* the reasons of a connection-level error
ConnErrors == {"ProtocolError", "FlowControlError"}

\* Recv::recv_err and Send::recv_err on one stream: the state takes the
\* error, what the stream had queued goes and its task is notified
Stream_recv_err(s, id, err) ==
    Stream_notify_send(
        [s EXCEPT !.store[id].state = "Closed", !.store[id].error = err,
                  !.store[id].buffered_send_data = 0,
                  !.store[id].is_pending_open = FALSE,
                  !.pending_open = SelectSeq(@, LAMBDA i : i /= id),
                  !.pending_send = SelectSeq(@, LAMBDA f : f.id /= id)], id)

\* store.for_each over the records of the store, each inside counts.transition
\* (the order of the map is arbitrary and the streams do not depend on it)
RECURSIVE Store_for_each_recv_err(_, _, _)
Store_for_each_recv_err(s, ids, err) ==
    IF ids = {} THEN s
    ELSE Let(CHOOSE id \in ids : TRUE, LAMBDA id :
         Store_for_each_recv_err(
             IF s.store[id].present
             THEN Counts_transition_after(Stream_recv_err(s, id, err), id)
             ELSE s, ids \ {id}, err))

\* recv_err that does not store the error for the handles
streams_Streams_recv_err_unrecorded(s, err) ==
    RetKey(Store_for_each_recv_err(s, EngStoreIds, err), "Ok", s.last_processed_id)

\* Streams::recv_err: the id read before the streams take the error is returned
streams_Streams_recv_err(s, err) ==
    RetKey([Store_for_each_recv_err(s, EngStoreIds, err) EXCEPT !.conn_error = err],
           "Ok", s.last_processed_id)

\* the driver meets a connection-level error, of the codec or of a frame,
\* and hands it to the streams; the record keeps the id that is returned
EngRecvErr ==
    /\ EngUsable
    /\ \E err \in ConnErrors :
         \E r \in {streams_Streams_recv_err(eng, err)} :
            EngCall("recv_err", r.key, 0, FALSE, Ret(Notify(r.s, "driver"), r.res))

\* HEADERS that are processed; those that are a connection-level error leave
\* the streams as they were and reach them through recv_err
ErrRecvHeaders == EngRecvHeaders /\ eng'.conn_error = ""

\* a request of the user once the connection has failed
ErrSendRequest ==
    /\ ~eng.panicked
    /\ eng.conn_error /= ""
    /\ \E eos \in BOOLEAN :
         EngCall("send_request", eng.send_next_id, 0, eos,
                 SendRequest_send_request(eng, eos))

InitErr ==
    /\ IdleRest
    /\ eng \in WuStarts
    /\ eng_last = EngStart

\* the calls of a run of SpecErr
MaxErrOps == 4

ErrUsable == eng.n_ops < MaxErrOps

NextErr ==
    \/ ErrUsable /\ EngSendRequest
    \/ ErrUsable /\ ErrRecvHeaders
    \/ ErrUsable /\ EngSendData
    \/ ErrUsable /\ EngDrop
    \/ ErrUsable /\ EngRecvErr
    \/ ErrUsable /\ ErrSendRequest
    \/ EngPollComplete

SpecErr == InitErr /\ [][NextErr]_vars

\* every record of the store is in the error state
AllErrored(p) ==
    \A id \in EngIds :
        p.store[id].present =>
            p.store[id].state = "Closed" /\ p.store[id].error = p.conn_error

\* the last stream of the peer whose HEADERS were processed, 0 when none
LastHeadersId(p) ==
    IF p.is_server /\ p.recv_next_id > 1 THEN p.recv_next_id - 2 ELSE 0

RequestAfterError == eng_last.op = "send_request" /\ eng_last.pre.conn_error /= ""

\* C21: after a connection-level error has been recorded by recv_err, every
\* stream in the store has been moved to the error state, every later
\* send_request returns a copy of the stored error and creates no stream, and
\* recv_err has returned the id of the last stream whose HEADERS were
\* processed, for use as the GOAWAY last_processed_id.
C21_ErrorReachesStreamsAndHandles ==
    /\ eng_last.op = "recv_err" =>
           /\ eng.conn_error \in ConnErrors
           /\ eng_last.id = LastHeadersId(eng_last.pre)
    /\ eng.conn_error /= "" => AllErrored(eng)
    /\ RequestAfterError =>
           /\ eng_last.res = eng_last.pre.conn_error
           /\ eng.store = eng_last.pre.store
           /\ eng.send_next_id = eng_last.pre.send_next_id
           /\ eng.pending_send = eng_last.pre.pending_send
           /\ eng_last.wrote = <<>>

C21_Witness ==
    /\ RequestAfterError
    /\ eng_last.pre.send_next_id \in EngIds
    /\ \E id \in EngIds : eng.store[id].present /\ eng.store[id].error /= ""

----------------------------------------------------------------------------
(* Errors of one stream while HEADERS and DATA are received *)

\* HEADERS with a malformed header block
EngRecvBadHeaders ==
    /\ EngUsable
    /\ \E id \in EngIds, eos \in BOOLEAN :
         EngRecv("recv_bad_headers", id, 0, eos,
                 streams_Streams_recv_headers(eng, id, eos, TRUE))

\* DATA that runs over the content-length
EngRecvBadData ==
    /\ EngUsable
    /\ \E id \in EngIds, sz \in EngSizes, eos \in BOOLEAN :
         EngRecv("recv_bad_data", id, sz, eos,
                 streams_Streams_recv_data(eng, id, sz, eos, TRUE))

InitRst ==
    /\ IdleRest
    /\ eng \in WuStarts
    /\ eng_last = EngStart

\* the calls of a run of SpecRst
MaxRstOps == 3

RstUsable == eng.n_ops < MaxRstOps

NextRst ==
    \/ RstUsable /\ EngSendRequest
    \/ RstUsable /\ EngRecvHeaders
    \/ RstUsable /\ EngRecvData
    \/ RstUsable /\ EngRecvBadHeaders
    \/ RstUsable /\ EngRecvBadData
    \/ RstUsable /\ EngSendData
    \/ EngPollComplete

SpecRst == InitRst /\ [][NextRst]_vars

RecvOps == {"recv_headers", "recv_data", "recv_bad_headers", "recv_bad_data"}

\* the frame was one with an error of the stream and the engine got as far
\* as the stream: no error of the connection came first
StreamErrorYielded ==
    /\ eng_last.op \in {"recv_bad_headers", "recv_bad_data"}
    /\ eng_last.res \notin ConnErrors

\* the RST_STREAM frames with the reason queued for the stream in state p
RstQueued(p, id, reason) ==
    Len(SelectSeq(p.pending_send,
                  LAMBDA f : f.kind = "Reset" /\ f.id = id /\ f.reason = reason))

AllRstQueued(p) == Len(SelectSeq(p.pending_send, LAMBDA f : f.kind = "Reset"))

\* C22: when processing an inbound HEADERS or DATA frame yields a
\* stream-level error, the engine resets only that stream with the error's
\* reason (an RST_STREAM is queued) and reports success to the driver, so the
\* connection stays open and no other stream changes state; a
\* connection-level error is passed to the driver unchanged and queues no
\* RST_STREAM.
C22_StreamErrorResetsOneStream ==
    /\ StreamErrorYielded =>
           /\ eng_last.res = "Ok"
           /\ eng.conn_error = ""
           /\ eng.store[eng_last.id].state = "Closed"
           /\ RstQueued(eng, eng_last.id, "ProtocolError")
                  = RstQueued(eng_last.pre, eng_last.id, "ProtocolError") + 1
           /\ AllRstQueued(eng) = AllRstQueued(eng_last.pre) + 1
           /\ \A w \in EngIds \ {eng_last.id} :
                  /\ eng.store[w].present = eng_last.pre.store[w].present
                  /\ eng.store[w].state = eng_last.pre.store[w].state
    /\ (eng_last.op \in RecvOps /\ eng_last.res \in ConnErrors) =>
           /\ eng.conn_error = eng_last.res
           /\ eng.pending_send = eng_last.pre.pending_send
           /\ eng.store = eng_last.pre.store
           /\ eng_last.wrote = <<>>

\* a stream is reset for its error while another stream is open
C22_Witness ==
    /\ StreamErrorYielded
    /\ eng_last.pre.store[eng_last.id].present
    /\ \E w \in EngIds \ {eng_last.id} :
           eng.store[w].present /\ eng.store[w].state /= "Closed"

----------------------------------------------------------------------------
(* Connection::start_send turned down with an error of the user *)

UserErrors == {"UnexpectedFrameType", "FlowControlViolation", "Rejected",
               "InvalidStreamId"}

\* what the user submits: streams that may and may not be opened, DATA within
\* and beyond the window and for a stream that is not there, trailers for a
\* stream that is not there, HEADERS for stream 0
FailFrames ==
    {Headers(id, FALSE, FALSE) : id \in {0, 1, 2}}
    \cup {Headers(2, TRUE, FALSE), Headers(4, FALSE, FALSE), Headers(4, FALSE, TRUE)}
    \cup {Data(2, sz, FALSE) : sz \in 1..MaxData} \cup {Data(1, 1, FALSE)}

\* what the peer sends meanwhile: frames that are answered with a frame
FailPeerFrames == {Ping(FALSE), Settings(FALSE)}

\* the calls of a run of SpecFail
MaxFailOps == 4

FailPoll == PollOf(FailPeerFrames, MaxFailOps)

FailStartSend == StartSendOf(FailFrames, MaxFailOps)

InitFail ==
    /\ \E is_server \in Roles, max_local \in Caps :
         conn = Connection_new(is_server, NoLimit, max_local)
    /\ io_writable = TRUE
    /\ in_poll = FALSE
    /\ hist = HistInit
    /\ conn_last = Call("new", NoInput, "Ok", "", FALSE, conn)
    /\ InitPP /\ IdleExt

NextFail ==
    \/ FailPoll
    \/ FailStartSend
    \/ PollComplete
    \/ SetWritable

SpecFail == InitFail /\ [][NextFail]_vars

\* the step is a start_send that returns an error of the user
FailedSend ==
    /\ conn_last'.op = "start_send"
    /\ hist'.n_ops = hist.n_ops + 1
    /\ conn_last'.ret \in UserErrors

SendWindows(s) ==
    <<s.send_flow_control.window_size,
      [id \in StreamIds |-> s.streams[id].local.fc.window_size]>>

StreamCounters(s) == <<s.num_local_initiated, s.num_remote_initiated>>

\* the frames that were pending and that poll_ready commits before the
\* frame of the user is looked at
ReadyWrites(s) == Connection_poll_ready(Fresh(s)).s.wrote

C23_Original ==
    [][FailedSend =>
          /\ conn'.wrote = <<>>
          /\ SendWindows(conn') = SendWindows(conn)
          /\ StreamCounters(conn') = StreamCounters(conn)]_vars

\* C23: a send operation that fails with a user error (DATA for an unknown
\* or send-closed stream, DATA larger than the send window, trailers that
\* would open a stream, a stream open that is not permitted) writes no frame
\* of its own to the codec, only the pending PONG, SETTINGS-ACK, refusal and
\* WINDOW_UPDATE frames that its poll_ready commits, and leaves the
\* connection-level and stream-level send windows and the stream counters
\* exactly as they were; valid operations issued afterwards still succeed.
C23_FailedSendChangesNothing ==
    [][FailedSend =>
          /\ conn' = Connection_poll_ready(Fresh(conn)).s
          /\ SendWindows(conn') = SendWindows(conn)
          /\ StreamCounters(conn') = StreamCounters(conn)
          /\ conn'.streams = conn.streams
          /\ conn'.state = "Open" /\ ~conn'.panicked]_vars

\* DATA beyond the window is turned down by a call that has committed a
\* pending frame
C23_Witness ==
    /\ conn_last.op = "start_send"
    /\ conn_last.ret = "FlowControlViolation"
    /\ conn.wrote /= <<>>

----------------------------------------------------------------------------
(* Connection::expand_window and the windows of the two directions *)

\* the step is an expand_window of the user
ExpandStep == conn_last'.op = "expand_window" /\ hist'.n_ops = hist.n_ops + 1

\* the send-side flow control: what bounds the DATA this endpoint may send
SendSide(s) ==
    <<s.send_flow_control, [id \in StreamIds |-> s.streams[id].local.fc]>>

\* the increment that waits to be advertised to the peer for the scope
RecvPending(s, id) ==
    IF id = 0 THEN s.recv_flow_control.next_window_update
    ELSE s.streams[id].remote.fc.next_window_update

\* the scope has a receive window: the connection, or a stream whose peer
\* is streaming
HasRecvWindow(s, id) == id = 0 \/ Stream_has_recv_flow_control(s.streams[id])

\* C24: expand_window(id, incr) increases only a local (recv-side)
\* flow-control window, the connection window when id is 0, otherwise that
\* stream's, by incr, so that a WINDOW_UPDATE with that increment is
\* advertised to the peer; it leaves unchanged every send-side window, which
\* bounds the DATA this endpoint may send.
C24_ExpandWindowIsReceiveSide ==
    [][ExpandStep =>
          /\ SendSide(conn') = SendSide(conn)
          /\ HasRecvWindow(conn, conn_last'.frame.id) =>
                 RecvPending(conn', conn_last'.frame.id)
                     = RecvPending(conn, conn_last'.frame.id) + conn_last'.frame.sz]_vars

----------------------------------------------------------------------------
(* FramedRead::decode_frame (src/src/codec/framed_read.rs): header blocks   *)
(* and their CONTINUATION frames.  frame::Headers::load, load_hpack and the *)
(* hpack decoder are not part of the source tree: a header block is a       *)
(* sequence of encoded headers, "h" one that decodes and "x" one that the   *)
(* decoder refuses, and the size of a header list is its number of headers  *)

\* stand-in for DEFAULT_SETTINGS_MAX_HEADER_LIST_SIZE (16 << 20), in headers
MaxHeaderListSize == 1

\* the longest payload of one frame, in encoded headers
MaxPayload == 2

\* the frames decoded in one run
MaxRdOps == 3

RdIds == {1, 3}

Octets == {"h", "x"}

RdPayloads == UNION {[1..n -> Octets] : n \in 0..MaxPayload}

\* a frame as length_delimited hands it over: head and payload
WireFrame(kind, id, end_headers, payload, self_dep) ==
    [kind |-> kind, id |-> id, end_headers |-> end_headers, payload |-> payload,
     self_dep |-> self_dep]

RdFrames ==
    {WireFrame(k, id, eh, p, FALSE) :
        k \in {"Headers", "PushPromise", "Continuation"}, id \in RdIds,
        eh \in BOOLEAN, p \in RdPayloads}
    \cup {WireFrame("Headers", 1, eh, <<>>, TRUE) : eh \in BOOLEAN}
    \cup {WireFrame(k, 1, FALSE, <<>>, FALSE) : k \in {"Data", "Ping", "Unknown"}}

\* the frame that decode_frame returns
Decoded(kind, id, fields) == [kind |-> kind, id |-> id, fields |-> fields]

NoDecoded == Decoded("", 0, 0)

NoPartial == [set |-> FALSE, kind |-> "", id |-> 0, fields |-> 0, buf |-> <<>>]

Partial(kind, id, fields, buf) ==
    [set |-> TRUE, kind |-> kind, id |-> id, fields |-> fields, buf |-> buf]

FramedRead_new ==
    [partial |-> NoPartial, max_header_list_size |-> MaxHeaderListSize,
     failed |-> FALSE, n_ops |-> 0]

RdOut(s, res, out) == [s |-> s, res |-> res, out |-> out]

\* Headers::load_hpack(src, max_header_list_size, decoder): the headers of
\* src join the fields of the frame; a header that does not decode is an
\* error of the decoder, a header list over the limit is MalformedMessage
Headers_load_hpack(fields, src, max) ==
    IF \E i \in DOMAIN src : src[i] = "x" THEN [res |-> "Hpack", fields |-> fields]
    ELSE IF fields + Len(src) > max
    THEN [res |-> "MalformedMessage", fields |-> fields + Len(src)]
    ELSE [res |-> "Ok", fields |-> fields + Len(src)]

\* PushPromise::load_hpack(src, decoder): no limit is given
PushPromise_load_hpack(fields, src) ==
    IF \E i \in DOMAIN src : src[i] = "x" THEN [res |-> "Hpack", fields |-> fields]
    ELSE [res |-> "Ok", fields |-> fields + Len(src)]

\* Continuable::load_hpack: the limit handed on for HEADERS is 0
Continuable_load_hpack(partial) ==
    IF partial.kind = "Headers"
    THEN Headers_load_hpack(partial.fields, partial.buf, 0)
    ELSE PushPromise_load_hpack(partial.fields, partial.buf)

ConnError(s) == RdOut([s EXCEPT !.failed = TRUE], "ConnProtocolError", NoDecoded)

StreamError(s) == RdOut(s, "StreamProtocolError", NoDecoded)

\* the header_block! macro for Kind::Headers
FramedRead_header_block(s, f) ==
    IF f.self_dep THEN StreamError(s)
    ELSE Let(Headers_load_hpack(0, f.payload, s.max_header_list_size), LAMBDA r :
         IF r.res = "MalformedMessage" THEN StreamError(s)
         ELSE IF r.res /= "Ok" THEN ConnError(s)
         ELSE IF f.end_headers
         THEN RdOut(s, "Frame", Decoded("Headers", f.id, r.fields))
         ELSE RdOut([s EXCEPT !.partial = Partial("Headers", f.id, r.fields, <<>>)],
                    "None", NoDecoded))

FramedRead_push_promise(s, f) ==
    IF f.end_headers
    THEN Let(PushPromise_load_hpack(0, f.payload), LAMBDA r :
             IF r.res = "MalformedMessage" THEN StreamError(s)
             ELSE IF r.res /= "Ok" THEN ConnError(s)
             ELSE RdOut(s, "Frame", Decoded("PushPromise", f.id, r.fields)))
    ELSE RdOut([s EXCEPT !.partial = Partial("PushPromise", f.id, 0, f.payload)],
               "None", NoDecoded)

\* Kind::Continuation: self.partial.take(), the buffer extended, and only
\* then the END_HEADERS flag and the stream id looked at
FramedRead_continuation(s, f) ==
    IF ~s.partial.set THEN ConnError(s)
    ELSE Let([s.partial EXCEPT !.buf = @ \o f.payload], LAMBDA partial :
         IF ~f.end_headers THEN RdOut([s EXCEPT !.partial = partial], "None", NoDecoded)
         ELSE Let([s EXCEPT !.partial = NoPartial], LAMBDA s1 :
              IF partial.id /= f.id THEN ConnError(s1)
              ELSE Let(Continuable_load_hpack(partial), LAMBDA r :
                   IF r.res = "MalformedMessage" THEN StreamError(s1)
                   ELSE IF r.res /= "Ok" THEN ConnError(s1)
                   ELSE RdOut(s1, "Frame", Decoded(partial.kind, partial.id, r.fields)))))

\* the match on the kind of the frame
FramedRead_decode_kind(s, f) ==
    IF f.kind = "Headers" THEN FramedRead_header_block(s, f)
    ELSE IF f.kind = "PushPromise" THEN FramedRead_push_promise(s, f)
    ELSE IF f.kind = "Continuation" THEN FramedRead_continuation(s, f)
    ELSE IF f.kind = "Unknown" THEN RdOut(s, "None", NoDecoded)
    ELSE RdOut(s, "Frame", Decoded(f.kind, f.id, 0))

\* decode_frame that takes any frame while a header block is buffered
FramedRead_decode_frame_any(s, f) == FramedRead_decode_kind(s, f)

FramedRead_decode_frame(s, f) ==
    IF s.partial.set /\ f.kind /= "Continuation" THEN ConnError(s)
    ELSE FramedRead_decode_kind(s, f)

\* history: the header block in progress, as the frames received tell it:
\* opened by HEADERS or PUSH_PROMISE without END_HEADERS that was buffered,
\* its payload so far, closed by the frame that ends or fails it
NoBlock == [open |-> FALSE, kind |-> "", id |-> 0, payload |-> <<>>]

BlockAfter(was, f, r) ==
    IF r.res /= "None" THEN NoBlock
    ELSE IF f.kind \in {"Headers", "PushPromise"}
    THEN [open |-> TRUE, kind |-> f.kind, id |-> f.id, payload |-> f.payload]
    ELSE IF f.kind = "Continuation" /\ was.open
    THEN [was EXCEPT !.payload = @ \o f.payload]
    ELSE was

\* FramedRead::poll takes the next frame of the peer through decode_frame;
\* an error of the connection ends the reading
RdDecode ==
    /\ rd.n_ops < MaxRdOps
    /\ ~rd.failed
    /\ \E f \in RdFrames :
         \E r \in {FramedRead_decode_frame(rd, f)} :
            /\ rd' = [r.s EXCEPT !.n_ops = @ + 1]
            /\ rd_last' = [frame |-> f, res |-> r.res, out |-> r.out, pre |-> rd,
                           was |-> rd_last.blk, blk |-> BlockAfter(rd_last.blk, f, r)]
    /\ UNCHANGED <<ppVars, connVars, flowVars, engVars, hsVars, wr, wr_last, queueVars>>

InitRd ==
    /\ InitPP /\ IdleConn
    /\ flow = NotBuilt /\ flow_last = NotBuilt
    /\ eng = NotBuilt /\ eng_last = NotBuilt
    /\ hs = NotBuilt /\ hs_last = NotBuilt
    /\ wr = NotBuilt /\ wr_last = NotBuilt
    /\ IdleQueue
    /\ rd = FramedRead_new
    /\ rd_last = [frame |-> WireFrame("Unknown", 1, FALSE, <<>>, FALSE), res |-> "None",
                  out |-> NoDecoded, pre |-> rd, was |-> NoBlock, blk |-> NoBlock]

NextRd == RdDecode

SpecRd == InitRd /\ [][NextRd]_vars

IsHeaderBlock(out) == out.kind \in {"Headers", "PushPromise"}

\* C25: while a header block is incomplete (a HEADERS or PUSH_PROMISE frame
\* was received without END_HEADERS), every frame other than CONTINUATION,
\* including a frame of unknown type, is a connection PROTOCOL_ERROR; a
\* CONTINUATION received when no header block is in progress is a connection
\* PROTOCOL_ERROR; the assembled frame is delivered only after a
\* CONTINUATION with END_HEADERS, and nothing is delivered before that.
C25_HeaderBlockIsContiguous ==
    /\ (rd_last.was.open /\ rd_last.frame.kind /= "Continuation")
           => rd_last.res = "ConnProtocolError"
    /\ (~rd_last.was.open /\ rd_last.frame.kind = "Continuation")
           => rd_last.res = "ConnProtocolError"
    /\ (rd_last.was.open /\ rd_last.res = "Frame") =>
           /\ rd_last.frame.kind = "Continuation" /\ rd_last.frame.end_headers
           /\ rd_last.out.kind = rd_last.was.kind
           /\ rd_last.out.id = rd_last.was.id
    /\ (rd_last.res = "Frame" /\ IsHeaderBlock(rd_last.out)) =>
           /\ rd_last.frame.end_headers
           /\ rd_last.frame.kind = "Continuation" => rd_last.was.open
    /\ rd_last.blk.open => rd_last.res = "None" /\ rd.partial.set

\* a block of HEADERS and two CONTINUATION frames is delivered
C25_Witness ==
    /\ rd_last.res = "Frame"
    /\ rd_last.was.open
    /\ rd_last.pre.n_ops = 2
    /\ rd_last.out.kind = "PushPromise"
    /\ rd_last.out.fields > 0

----------------------------------------------------------------------------
\* a CONTINUATION frame received while a header block of another stream is
\* in progress
ForeignContinuation ==
    /\ rd_last.frame.kind = "Continuation"
    /\ rd_last.was.open
    /\ rd_last.frame.id /= rd_last.was.id

\* C26: a CONTINUATION frame whose stream id differs from the id of the
\* header block in progress is rejected with a connection PROTOCOL_ERROR,
\* whether or not it carries END_HEADERS, and its payload is not appended to
\* the block.
C26_ForeignContinuationRejected ==
    ForeignContinuation =>
        /\ rd_last.res = "ConnProtocolError"
        /\ ~rd.partial.set

\* a CONTINUATION of END_HEADERS on another stream is refused
C26_Witness ==
    /\ ForeignContinuation
    /\ rd_last.frame.end_headers
    /\ rd_last.frame.payload /= <<>>
    /\ rd_last.res = "ConnProtocolError"

----------------------------------------------------------------------------
\* what the frames of a header block give when they arrive as one HEADERS
\* frame of END_HEADERS
SingleFrame(id, payload) ==
    FramedRead_decode_frame(FramedRead_new, WireFrame("Headers", id, TRUE, payload, FALSE))

\* the CONTINUATION that ends a block of HEADERS
EndsHeadersBlock ==
    /\ rd_last.frame.kind = "Continuation"
    /\ rd_last.frame.end_headers
    /\ rd_last.was.open
    /\ rd_last.was.kind = "Headers"
    /\ rd_last.frame.id = rd_last.was.id

\* C28: the limit on the size of a header list is applied alike to a header
\* block that arrives in one HEADERS frame and to one that is split over
\* HEADERS and CONTINUATION frames: the same block is accepted or refused,
\* with the same error, however it is framed.
C28_HeaderListLimitIgnoresFraming ==
    EndsHeadersBlock =>
        \E one \in {SingleFrame(rd_last.was.id, rd_last.was.payload \o rd_last.frame.payload)} :
            /\ rd_last.res = one.res
            /\ rd_last.out = one.out

\* a block within the limit was split over two frames
C28_Witness ==
    /\ EndsHeadersBlock
    /\ Len(rd_last.was.payload \o rd_last.frame.payload) = MaxHeaderListSize
    /\ \A i \in DOMAIN rd_last.frame.payload : rd_last.frame.payload[i] = "h"
    /\ \A i \in DOMAIN rd_last.was.payload : rd_last.was.payload[i] = "h"

----------------------------------------------------------------------------
(* Writing a HEADERS frame: Headers::encode (src/src/frame/headers.rs) and  *)
(* the Frame::Headers arm of FramedWrite::start_send                        *)
(* (src/src/proto/framed_write.rs).  The hpack encoder is not part of the   *)
(* source tree: a header takes one unit of the write buffer                 *)

\* stand-in for DEFAULT_BUFFER_CAPACITY (4 * 1_024), in encoded headers
WrCap == 2

\* stand-in for MIN_BUFFER_CAPACITY (frame::HEADER_LEN + CHAIN_THRESHOLD)
WrMinRoom == 1

\* the most headers of one frame that the user sends
MaxFields == 3

\* the calls on the write side in one run
MaxWrOps == 4

\* impl Default for HeadersFlag: END_HEADERS is set
HeadersFlag_default == [end_stream |-> FALSE, end_headers |-> TRUE]

\* Headers::new, and set_end_stream when the message has no body
Headers_new(id, fields, eos) ==
    [id |-> id, fields |-> fields,
     flags |-> [HeadersFlag_default EXCEPT !.end_stream = eos]]

NoContinuation == [set |-> FALSE, id |-> 0, rest |-> 0]

\* hpack::Encoder::encode: Full when the headers fit in what is left of
\* dst, Partial with the headers that remain when it ran out of space
Encoder_encode(fields, room) ==
    IF fields <= room THEN [res |-> "Full", put |-> fields, rest |-> 0]
    ELSE [res |-> "Partial", put |-> room, rest |-> fields - room]

\* Headers::encode: the head is written from self.flags before the block is
\* encoded; what the encoder could not place is returned as a Continuation.
\* block records the size of the whole header block of the frame
Headers_encode(frame, room) ==
    Let(Encoder_encode(frame.fields, room), LAMBDA e :
        [written |-> [kind |-> "Headers", id |-> frame.id,
                      end_stream |-> frame.flags.end_stream,
                      end_headers |-> frame.flags.end_headers,
                      fields |-> e.put, block |-> frame.fields],
         put |-> e.put,
         cont |-> IF e.res = "Full" THEN NoContinuation
                  ELSE [set |-> TRUE, id |-> frame.id, rest |-> e.rest]])

Wr_new ==
    [buf |-> <<>>, wire |-> <<>>, room |-> WrCap, next |-> NoContinuation,
     hung |-> FALSE, n_ops |-> 0]

Wr_has_capacity(w) == ~w.next.set /\ w.room >= WrMinRoom

\* FramedWrite::poll_complete: the buffer goes to the transport while
\* is_empty() is false; is_empty() stays false while next is set, and
\* nothing takes next, so the loop does not end once the buffer is written
Wr_poll_complete(w, writable) ==
    IF w.buf /= <<>> /\ ~writable THEN Ret(w, "NotReady")
    ELSE Let([w EXCEPT !.wire = @ \o w.buf, !.buf = <<>>], LAMBDA s :
         IF s.next.set THEN Ret([s EXCEPT !.hung = TRUE], "Diverges")
         ELSE Ret([s EXCEPT !.room = WrCap], "Ready"))

Wr_poll_ready(w, writable) ==
    IF Wr_has_capacity(w) THEN Ret(w, "Ready")
    ELSE Let(Wr_poll_complete(w, writable), LAMBDA c :
         IF c.res = "Diverges" THEN c
         ELSE Ret(c.s, IF Wr_has_capacity(c.s) THEN "Ready" ELSE "NotReady"))

\* FramedWrite::start_send for Frame::Headers
Wr_start_send(w, frame, writable) ==
    Let(Wr_poll_ready(w, writable), LAMBDA r :
        IF r.res /= "Ready" THEN r
        ELSE Let(Headers_encode(frame, r.s.room), LAMBDA e :
             Ret([r.s EXCEPT !.buf = Append(@, e.written),
                             !.room = @ - e.put,
                             !.next = e.cont], "Ready")))

WrCall(op, frame, r) ==
    /\ wr' = [r.s EXCEPT !.n_ops = @ + 1]
    /\ wr_last' = [op |-> op, frame |-> frame, res |-> r.res, pre |-> wr]
    /\ UNCHANGED <<ppVars, connVars, flowVars, engVars, hsVars, rd, rd_last, queueVars>>

WrUsable == wr.n_ops < MaxWrOps /\ ~wr.hung

WrStartSend ==
    /\ WrUsable
    /\ \E id \in RdIds, fields \in 0..MaxFields, eos \in BOOLEAN, writable \in BOOLEAN :
         \E frame \in {Headers_new(id, fields, eos)} :
            WrCall("start_send", frame, Wr_start_send(wr, frame, writable))

WrPollComplete ==
    /\ WrUsable
    /\ \E writable \in BOOLEAN :
         WrCall("poll_complete", Headers_new(0, 0, FALSE), Wr_poll_complete(wr, writable))

InitWr ==
    /\ InitPP /\ IdleConn
    /\ flow = NotBuilt /\ flow_last = NotBuilt
    /\ eng = NotBuilt /\ eng_last = NotBuilt
    /\ hs = NotBuilt /\ hs_last = NotBuilt
    /\ rd = NotBuilt /\ rd_last = NotBuilt
    /\ IdleQueue
    /\ wr = Wr_new
    /\ wr_last = [op |-> "new", frame |-> Headers_new(0, 0, FALSE), res |-> "Ready", pre |-> wr]

NextWr == WrStartSend \/ WrPollComplete

SpecWr == InitWr /\ [][NextWr]_vars

\* the frames written: those handed to the transport and those buffered
WrWritten == wr.wire \o wr.buf

\* C27: when an encoded header block does not fit in one frame, the frames
\* written are one HEADERS frame with END_HEADERS clear followed by
\* CONTINUATION frames on the same stream, of which only the last has
\* END_HEADERS set; when the block fits, a single HEADERS frame with
\* END_HEADERS set is written.
C27_HeaderBlockIsSplit ==
    \A i \in DOMAIN WrWritten :
        WrWritten[i].kind = "Headers" =>
            /\ WrWritten[i].end_headers <=> WrWritten[i].fields = WrWritten[i].block
            /\ (WrWritten[i].fields < WrWritten[i].block /\ i < Len(WrWritten)) =>
                   /\ WrWritten[i + 1].kind = "Continuation"
                   /\ WrWritten[i + 1].id = WrWritten[i].id

\* a header block that fits was written as one frame
C27_Witness ==
    /\ wr_last.op = "start_send" /\ wr_last.res = "Ready"
    /\ wr_last.frame.fields > 0
    /\ ~wr.next.set
    /\ wr.buf[Len(wr.buf)].end_headers

----------------------------------------------------------------------------
(* store::Queue (src/src/proto/streams/store.rs): an intrusive linked list  *)
(* of streams.  The links are fields of the streams, reached through the    *)
(* trait Next (next, set_next, take_next, is_queued, set_queued); its       *)
(* implementations are plain accessors of those fields                      *)

\* the keys of the streams in the store
MaxKey == 3

\* the calls on the queue in one run
MaxQOps == 6

QKeys == 1..MaxKey

\* Option<Key>: None
NoKey == 0

NoIndices == [set |-> FALSE, head |-> NoKey, tail |-> NoKey]

Queue_new ==
    [indices |-> NoIndices,
     next |-> [k \in QKeys |-> NoKey],
     is_queued |-> [k \in QKeys |-> FALSE],
     n_ops |-> 0]

QRet(s, pushed, out) == [s |-> s, pushed |-> pushed, out |-> out]

\* push that puts the stream in front of the head
Queue_push_front(q, key) ==
    IF q.is_queued[key] THEN QRet(q, FALSE, NoKey)
    ELSE IF q.indices.set
    THEN QRet([q EXCEPT !.is_queued[key] = TRUE,
                        !.next[key] = q.indices.head,
                        !.indices.head = key], TRUE, NoKey)
    ELSE QRet([q EXCEPT !.is_queued[key] = TRUE,
                        !.indices = [set |-> TRUE, head |-> key, tail |-> key]],
              TRUE, NoKey)

Queue_push(q, key) ==
    IF q.is_queued[key] THEN QRet(q, FALSE, NoKey)
    ELSE IF q.indices.set
    THEN QRet([q EXCEPT !.is_queued[key] = TRUE,
                        !.next[q.indices.tail] = key,
                        !.indices.tail = key], TRUE, NoKey)
    ELSE QRet([q EXCEPT !.is_queued[key] = TRUE,
                        !.indices = [set |-> TRUE, head |-> key, tail |-> key]],
              TRUE, NoKey)

\* pop that leaves the link of the stream it returns
Queue_pop_keeps_link(q) ==
    IF ~q.indices.set THEN QRet(q, FALSE, NoKey)
    ELSE Let(q.indices.head, LAMBDA stream :
         IF q.indices.head = q.indices.tail
         THEN QRet([q EXCEPT !.indices = NoIndices,
                             !.is_queued[stream] = FALSE], FALSE, stream)
         ELSE QRet([q EXCEPT !.indices.head = q.next[stream],
                             !.is_queued[stream] = FALSE], FALSE, stream))

Queue_pop(q) ==
    IF ~q.indices.set THEN QRet(q, FALSE, NoKey)
    ELSE Let(q.indices.head, LAMBDA stream :
         IF q.indices.head = q.indices.tail
         THEN QRet([q EXCEPT !.indices = NoIndices,
                             !.is_queued[stream] = FALSE], FALSE, stream)
         ELSE QRet([q EXCEPT !.indices.head = q.next[stream],
                             !.next[stream] = NoKey,
                             !.is_queued[stream] = FALSE], FALSE, stream))

\* history: the streams pushed with success and not yet popped, in order
FifoAfter(fifo, op, key, r) ==
    IF op = "push" THEN (IF r.pushed THEN Append(fifo, key) ELSE fifo)
    ELSE IF r.out /= NoKey THEN Tail(fifo) ELSE fifo

QCall(op, key, r) ==
    /\ queue' = [r.s EXCEPT !.n_ops = @ + 1]
    /\ queue_last' = [op |-> op, key |-> key, pushed |-> r.pushed, out |-> r.out,
                      pre |-> queue, was |-> queue_last.fifo,
                      fifo |-> FifoAfter(queue_last.fifo, op, key, r)]
    /\ UNCHANGED <<ppVars, connVars, flowVars, engVars, hsVars, codecVars>>

QPush ==
    /\ queue.n_ops < MaxQOps
    /\ \E key \in QKeys : QCall("push", key, Queue_push(queue, key))

QPop ==
    /\ queue.n_ops < MaxQOps
    /\ QCall("pop", NoKey, Queue_pop(queue))

InitQ ==
    /\ InitPP /\ IdleConn
    /\ flow = NotBuilt /\ flow_last = NotBuilt
    /\ eng = NotBuilt /\ eng_last = NotBuilt
    /\ hs = NotBuilt /\ hs_last = NotBuilt
    /\ IdleCodec
    /\ queue = Queue_new
    /\ queue_last = [op |-> "new", key |-> NoKey, pushed |-> FALSE, out |-> NoKey,
                     pre |-> queue, was |-> <<>>, fifo |-> <<>>]

NextQ == QPush \/ QPop

SpecQ == InitQ /\ [][NextQ]_vars

\* the streams of the list, from the head along the links
RECURSIVE QWalk(_, _, _)
QWalk(q, key, fuel) ==
    IF key = NoKey \/ fuel = 0 THEN <<>>
    ELSE <<key>> \o QWalk(q, q.next[key], fuel - 1)

QList(q) == IF q.indices.set THEN QWalk(q, q.indices.head, MaxKey + 1) ELSE <<>>

SameQueue(a, b) ==
    a.indices = b.indices /\ a.next = b.next /\ a.is_queued = b.is_queued

InFifo(fifo, key) == \E i \in DOMAIN fifo : fifo[i] = key

\* C30: for any interleaving of push and pop on a Queue, pop returns the
\* streams in the order in which they were pushed with success; a stream is
\* contained at most once: pushing a stream that is already queued returns
\* false and leaves the queue unchanged, and pop on an empty queue returns
\* None.
C30_QueueIsFifo ==
    /\ QList(queue) = queue_last.fifo
    /\ \A i, j \in DOMAIN queue_last.fifo :
           queue_last.fifo[i] = queue_last.fifo[j] => i = j
    /\ \A k \in QKeys : queue.is_queued[k] <=> InFifo(queue_last.fifo, k)
    /\ queue_last.op = "pop" =>
           IF queue_last.was = <<>>
           THEN queue_last.out = NoKey /\ SameQueue(queue, queue_last.pre)
           ELSE queue_last.out = Head(queue_last.was)
    /\ queue_last.op = "push" =>
           /\ queue_last.pushed <=> ~InFifo(queue_last.was, queue_last.key)
           /\ ~queue_last.pushed => SameQueue(queue, queue_last.pre)

\* three streams were pushed, one of them twice, and the first came back
C30_Witness ==
    /\ queue_last.op = "pop"
    /\ Len(queue_last.was) = MaxKey
    /\ queue_last.out = Head(queue_last.was)
    /\ queue_last.out /= queue_last.pre.indices.tail
    /\ queue.n_ops > MaxKey + 1

----------------------------------------------------------------------------
(* One pass of the driver over a connection that has frames pending of      *)
(* every class: a PONG, SETTINGS acknowledgements, a stream refusal, the    *)
(* connection's WINDOW_UPDATE and WINDOW_UPDATEs of streams                 *)

\* the calls of a run that starts with pending frames
MaxPassOps == 2

\* the SETTINGS frames of the peer that wait for their acknowledgement
MaxPendingAcks == 2

\* the streams of the peer whose WINDOW_UPDATE is queued, in queue order
PassQueues == {<<>>, <<2>>, <<4>>, <<2, 4>>, <<4, 2>>}

InQueue(q, id) == \E i \in DOMAIN q : q[i] = id

\* a stream the peer opened, with an increment of id / 2 to advertise
PassStream(q, id) ==
    IF InQueue(q, id)
    THEN StreamState("Open", AwaitingHeaders,
                     [streaming |-> TRUE,
                      fc |-> FlowControl_expand_window(FlowControl_new(InitWindow), id \div 2)])
    ELSE Vacant

PassPeerFrames == {Ping(FALSE), Settings(FALSE), Data(1, 1, FALSE)}

PassFrames == {Headers(1, FALSE, FALSE), Headers(2, FALSE, FALSE)}

PassPoll == PollOf(PassPeerFrames, MaxPassOps)

PassStartSend == StartSendOf(PassFrames, MaxPassOps)

InitPass ==
    /\ \E pong \in BOOLEAN, acks \in 0..MaxPendingAcks, refusal \in BOOLEAN,
          incr \in 0..1, q \in PassQueues, buffered \in 0..BufCap :
         conn = [Connection_new(FALSE, IF refusal THEN Len(q) ELSE NoLimit, NoLimit) EXCEPT
                   !.sending_pong = pong,
                   !.remaining_acks = acks,
                   !.refused = IF refusal THEN 4 + 2 ELSE None,
                   !.recv_flow_control = FlowControl_expand_window(@, incr),
                   !.pending_send_window_updates = q,
                   !.streams = [id \in StreamIds |-> PassStream(q, id)],
                   !.num_remote_initiated = Len(q),
                   !.buffered = buffered]
    /\ io_writable \in BOOLEAN
    /\ in_poll = FALSE
    /\ hist = HistInit
    /\ conn_last = Call("new", NoInput, "Ok", "", FALSE, conn)
    /\ InitPP /\ IdleExt

NextPass ==
    \/ PassPoll
    \/ PollClosing
    \/ PassStartSend
    \/ PollComplete
    \/ SetWritable

SpecPass == InitPass /\ [][NextPass]_vars

\* the classes of frames, in the order of the claim
FrameClass(f) ==
    IF f.kind = "Ping" /\ f.flag THEN 1
    ELSE IF IsSettingsAck(f) THEN 2
    ELSE IF IsRefusal(f) THEN 3
    ELSE IF f.kind = "WindowUpdate" /\ f.id = 0 THEN 4
    ELSE IF f.kind = "WindowUpdate" THEN 5
    ELSE IF f.kind \in {"Headers", "Data"} THEN 6
    ELSE 7

IsPendingClass(f) == FrameClass(f) <= 5

IsUserFrame(f) == FrameClass(f) = 6

\* the frames that are pending in s, by class, streams in queue order
PendingUpTo(s, class) ==
    (IF s.sending_pong THEN <<Ping(TRUE)>> ELSE <<>>)
    \o (IF class >= 2 THEN [i \in 1..s.remaining_acks |-> Settings(TRUE)] ELSE <<>>)
    \o (IF class >= 3 /\ s.refused /= None
        THEN <<Reset(s.refused, "RefusedStream")>> ELSE <<>>)
    \o (IF class >= 4 /\ s.recv_flow_control.next_window_update > 0
        THEN <<WindowUpdate(0, s.recv_flow_control.next_window_update)>> ELSE <<>>)
    \o (IF class >= 5
        THEN [i \in 1..Len(s.pending_send_window_updates) |->
                WindowUpdate(s.pending_send_window_updates[i],
                             s.streams[s.pending_send_window_updates[i]].remote.fc.next_window_update)]
        ELSE <<>>)

\* a step that is one pass of the driver over an open connection
PassStep ==
    /\ Usable /\ io_writable' = io_writable
    /\ conn_last'.op \in {"poll", "start_send", "poll_complete"}

----------------------------------------------------------------------------
\* the streams whose queued flag is set
QueuedKeys(q) == {k \in QKeys : q.is_queued[k]}

\* C40: in every reachable state of a Queue and its store, the queue's
\* indices are None exactly when no stream has its queued flag set;
\* otherwise following next links from head reaches tail and visits exactly
\* the streams whose queued flag is set, each once; the tail's next link is
\* None; and a stream returned by pop has its queued flag cleared and no
\* next link.
C40_QueueLinksAreConsistent ==
    /\ ~queue.indices.set <=> QueuedKeys(queue) = {}
    /\ queue.indices.set =>
           /\ QList(queue)[1] = queue.indices.head
           /\ QList(queue)[Len(QList(queue))] = queue.indices.tail
           /\ {QList(queue)[i] : i \in DOMAIN QList(queue)} = QueuedKeys(queue)
           /\ Len(QList(queue)) = Cardinality(QueuedKeys(queue))
           /\ queue.next[queue.indices.tail] = NoKey
    /\ \A k \in QKeys : ~queue.is_queued[k] => queue.next[k] = NoKey
    /\ (queue_last.op = "pop" /\ queue_last.out /= NoKey) =>
           /\ ~queue.is_queued[queue_last.out]
           /\ queue.next[queue_last.out] = NoKey

\* a stream with a successor was popped from a queue of several streams
C40_Witness ==
    /\ queue_last.op = "pop"
    /\ queue_last.out /= NoKey
    /\ queue_last.pre.next[queue_last.out] /= NoKey
    /\ queue.indices.set
    /\ queue.indices.head /= queue.indices.tail

----------------------------------------------------------------------------
(* Claims about the fields of FlowControl *)

Within(f) == f.available <= FlowControl_window_size(f)

FailedBufferData ==
    /\ flow_last.op = "buffer_data"
    /\ flow_last.pre.available < flow_last.sz

WrappingIncrement ==
    /\ flow_last.op = "inc_window"
    /\ flow_last.pre.window_size + flow_last.sz > MAX_WINDOW_SIZE

\* a send_data of more than the part of the window that is not available,
\* that is, of data that buffer_data or claim_capacity has not taken before
UnbufferedSend ==
    /\ flow_last.op = "send_data"
    /\ flow_last.sz >
           FlowControl_window_size(flow_last.pre) - flow_last.pre.available

SendDataOverdraws ==
    /\ flow_last.op = "send_data"
    /\ flow_last.sz > flow_last.pre.window_size

\* C39: send_data(sz) goes through only when sz does not exceed the current
\* window: for every window value, including a negative one, a call with sz
\* greater than the window is stopped by its assertion, so send_data never
\* makes window_size smaller than min(0, its previous value).
C39_SendDataWithinWindow ==
    /\ SendDataOverdraws => flow_last.res = "panic" /\ flow = flow_last.pre
    /\ flow_last.op = "send_data" =>
           flow.window_size >= Min(0, flow_last.pre.window_size)

----------------------------------------------------------------------------
\* the results with which a poll of the handshake returns
PollResults == {"Ready", "NotReady", "ProtocolError", "IoError"}

\* C36: ReadPreface::poll always returns: for every transport behaviour,
\* including end-of-file (a read that yields 0 bytes) before all 24 preface
\* bytes have arrived, each call ends with Ready, NotReady or an error, so
\* the server handshake cannot spin forever inside one poll.
C36_ReadPrefaceReturns ==
    /\ hs_last.op = "poll" => hs_last.res \in PollResults
    /\ hs.outcome \in PollResults

----------------------------------------------------------------------------
(* PingPong: pending pongs are written in the end *)

\* C37: every pong queued for a received PING is written in the end once the
\* transport accepts writes, as long as poll keeps being called, also when the
\* inbound stream ended while writes were refused: it never happens that from
\* some point on pongs stay pending although the transport accepts writes.
C37_PendingPongsEventuallyWritten ==
    []<>(sending_pongs = <<>> \/ ~Transport_can_send)

----------------------------------------------------------------------------
(* GOAWAY of the peer, and the SendRequest handle of a client *)

\* the reasons a GOAWAY of the peer carries here
GoAwayReasons == <<"NoError", "ProtocolError">>

\* recv_goaway that takes every stream for refused
streams_Streams_recv_goaway_all(s, last_stream_id, err) ==
    Ret([Store_for_each_recv_err(s, EngStoreIds, err) EXCEPT !.conn_error = err], "Ok")

\* Streams::recv_goaway: the streams above last_stream_id take the error, the
\* error is stored for the handles
streams_Streams_recv_goaway(s, last_stream_id, err) ==
    Ret([Store_for_each_recv_err(s, {id \in EngStoreIds : id > last_stream_id}, err)
            EXCEPT !.conn_error = err], "Ok")

\* Clone for SendRequest: the same streams, no stream remembered
SendRequest_clone(s) == Ret([s EXCEPT !.pending = None], "Ok")

\* the calls of a run of SpecGoAway
MaxGaOps == 5

GaUsable == eng.n_ops < MaxGaOps /\ ~eng.panicked

GaLastIds == {1, 3}

\* the ids of the requests of the client
GaIds == {1, 3, 5}

\* a GOAWAY of the peer; the record keeps last_stream_id and the reason
GaRecvGoAway ==
    /\ GaUsable
    /\ \E last \in GaLastIds, i \in DOMAIN GoAwayReasons :
         \E r \in {streams_Streams_recv_goaway(eng, last, GoAwayReasons[i])} :
            EngCall("recv_goaway", last, i, FALSE, Ret(Notify(r.s, "driver"), r.res))

\* a request of the user, before and after a GOAWAY
GaSendRequest ==
    /\ GaUsable
    /\ \/ eng.send_next_id \in EngStoreIds
       \/ eng.pending /= None /\ eng.store[eng.pending].is_pending_open
    /\ \E eos \in BOOLEAN :
         EngCall("send_request", eng.send_next_id, 0, eos,
                 SendRequest_send_request(eng, eos))

\* the user goes on with a clone of the handle
GaCloneHandle ==
    /\ GaUsable
    /\ eng_last.op /= "clone_handle"
    /\ EngCall("clone_handle", eng.pending, 0, FALSE, SendRequest_clone(eng))

\* the response of the peer to a request, before and after a GOAWAY
GaRecvHeaders ==
    /\ GaUsable
    /\ \E id \in GaIds :
         /\ eng.store[id].present
         /\ \E r \in {streams_Streams_recv_headers(eng, id, TRUE, FALSE)} :
              /\ r.res \notin ConnErrors
              /\ EngCall("recv_headers", id, 0, TRUE, Ret(Notify(r.s, "driver"), r.res))

\* the handle asks whether it may send, before and after a GOAWAY
GaPollReady ==
    /\ GaUsable
    /\ eng_last.op /= "poll_ready"
    /\ \E r \in {SendRequest_poll_ready([eng EXCEPT !.wake = @ \ {"user"}])} :
         EngCall("poll_ready", eng.pending, 0, FALSE, r)

GaStarts == OpenStarts \cup {streams_Streams_new(FALSE, NoLimit)}

InitGoAway ==
    /\ IdleRest
    /\ eng \in GaStarts
    /\ eng_last = EngStart

NextGoAway ==
    \/ GaSendRequest
    \/ GaPollReady
    \/ GaCloneHandle
    \/ GaRecvHeaders
    \/ GaRecvGoAway
    \/ EngPollComplete

SpecGoAway == InitGoAway /\ [][NextGoAway]_vars

----------------------------------------------------------------------------
(* Claims about GOAWAY and the handle *)

GoAwayReceived == eng_last.op = "recv_goaway"

RequestAfterGoAway == eng_last.op = "send_request" /\ eng_last.pre.conn_error /= ""

\* the response that ends a stream arrives after a GOAWAY
ResponseAfterGoAway ==
    /\ eng_last.op = "recv_headers"
    /\ eng_last.pre.conn_error /= ""
    /\ eng_last.pre.store[eng_last.id].state = "HalfClosedLocal"
    /\ eng_last.pre.store[eng_last.id].error = ""

\* C35: a GOAWAY with last_stream_id L moves exactly the streams with an id
\* above L to the error state, with the reason of the GOAWAY, and leaves the
\* streams up to L as they were; such a stream still completes when its
\* response ends it; from the GOAWAY on every send_request fails with the
\* recorded reason and creates no stream.
C35_GoAwayErrorsStreamsAboveLast ==
    /\ GoAwayReceived =>
           /\ eng.conn_error = GoAwayReasons[eng_last.arg]
           /\ \A id \in EngStoreIds :
                IF id > eng_last.id /\ eng_last.pre.store[id].present
                THEN /\ eng.store[id].state = "Closed"
                     /\ eng.store[id].error = GoAwayReasons[eng_last.arg]
                ELSE eng.store[id] = eng_last.pre.store[id]
    /\ ResponseAfterGoAway =>
           /\ eng_last.res = "Ok"
           /\ eng.store[eng_last.id].state = "Closed"
           /\ eng.store[eng_last.id].error = ""
    /\ RequestAfterGoAway =>
           /\ eng_last.res = eng_last.pre.conn_error
           /\ eng.store = eng_last.pre.store
           /\ eng.send_next_id = eng_last.pre.send_next_id
           /\ eng.pending_send = eng_last.pre.pending_send
           /\ eng.pending_open = eng_last.pre.pending_open
           /\ eng_last.wrote = <<>>

\* a GOAWAY refused stream 3 and kept stream 1, whose response then ended it
C35_Witness ==
    /\ ResponseAfterGoAway
    /\ eng_last.id = 1
    /\ eng.store[1].state = "Closed" /\ eng.store[1].error = ""
    /\ eng.store[3].present /\ eng.store[3].error = eng.conn_error

\* the request is made through a handle whose previous stream still waits
\* to be opened
RequestWhilePending == eng_last.op = "send_request" /\ HandlePending(eng_last.pre)

\* the request is made through a handle whose previous stream was held and
\* has been opened since
RequestOncePendingOpened ==
    /\ eng_last.op = "send_request"
    /\ eng_last.pre.pending /= None
    /\ ~eng_last.pre.store[eng_last.pre.pending].is_pending_open

NoStreamCreated ==
    /\ eng.store = eng_last.pre.store
    /\ eng.send_next_id = eng_last.pre.send_next_id
    /\ eng.pending_open = eng_last.pre.pending_open

\* C31 as stated: a request through a handle whose previous stream is still
\* pending open returns Rejected and creates nothing; once that stream is open
\* the next request is accepted; a cloned handle remembers no stream.
C31_Original ==
    /\ RequestWhilePending => eng_last.res = "Rejected" /\ NoStreamCreated
    /\ RequestOncePendingOpened => eng_last.res = "Ok"
    /\ eng_last.op = "clone_handle" => eng.pending = None

\* C31 amended: on a connection that has recorded no error and no GOAWAY, a
\* request through a handle whose previous stream is still pending open
\* returns Rejected, and once that stream is open the next request is
\* accepted; after an error or a GOAWAY was recorded both return the recorded
\* reason; a request that is not accepted creates no stream record and
\* consumes no id; an accepted request that is held pending open becomes the
\* stream the handle remembers; a cloned handle remembers no stream.
C31_OnePendingOpenPerHandle ==
    /\ RequestWhilePending =>
           /\ eng_last.res = IF eng_last.pre.conn_error = "" THEN "Rejected"
                             ELSE eng_last.pre.conn_error
           /\ NoStreamCreated
           /\ eng.pending = eng_last.pre.pending
    /\ RequestOncePendingOpened =>
           eng_last.res = IF eng_last.pre.conn_error = "" THEN "Ok"
                          ELSE eng_last.pre.conn_error
    /\ (eng_last.op = "send_request" /\ eng_last.res /= "Ok") => NoStreamCreated
    /\ (eng_last.op = "send_request" /\ eng_last.res = "Ok") =>
           /\ ~eng_last.pre.store[eng_last.id].present
           /\ eng.store[eng_last.id].present
           /\ eng.send_next_id = eng_last.id + 2
           /\ eng.store[eng_last.id].is_pending_open => eng.pending = eng_last.id
    /\ eng_last.op = "clone_handle" => eng.pending = None

\* the handle remembered stream 3 while it was held; the driver opened it and
\* the next request through the handle was accepted as stream 5
C31_Witness ==
    /\ RequestOncePendingOpened
    /\ eng_last.res = "Ok"
    /\ eng_last.id = 5
    /\ eng.store[3].present /\ ~eng.store[3].is_pending_open

----------------------------------------------------------------------------
(* The refused slot of the old Streams *)

RefusalPendingBefore == conn_last.pre.refused /= None

\* C32: at most one refusal is pending: a pass of recv_frame that finds a
\* refusal pending reads nothing from the codec, so no HEADERS is dispatched
\* (and remote_open's assertion is not reached) while the slot is taken, and
\* a refusal that stays pending is the one that was pending before.
C32_OneRefusalPending ==
    /\ (conn_last.op = "poll" /\ conn_last.read) => ~RefusalPendingBefore
    /\ (conn_last.op = "poll" /\ conn_last.read /\ conn_last.frame.kind = "Headers"
          /\ conn.refused /= None)
          => conn.refused = conn_last.frame.id /\ ~conn.panicked
    /\ (RefusalPendingBefore /\ conn.refused /= None)
          => conn.refused = conn_last.pre.refused

\* a poll found the refusal pending, could not write it and read no frame
C32_Witness ==
    /\ conn_last.op = "poll"
    /\ RefusalPendingBefore
    /\ ~conn_last.read
    /\ conn.refused = conn_last.pre.refused
    /\ ~conn.panicked

----------------------------------------------------------------------------
(* The two receive windows of the old Streams *)

DataRead == conn_last.op = "poll" /\ conn_last.read /\ conn_last.frame.kind = "Data"

\* what the call took from the connection's receive window
ConnectionClaimed == conn_last.pre.recv_window - conn.recv_flow_control.window_size

\* the call took the payload from the stream's receive window; a stream whose
\* receive side the frame ended has no window left to look at
StreamClaimed ==
    /\ Stream_has_recv_flow_control(conn_last.pre.stream)
    /\ conn_last.frame.sz <= conn_last.pre.stream.remote.fc.window_size
    /\ IF conn_last.frame.eos
       THEN ~Stream_has_recv_flow_control(conn.streams[conn_last.frame.id])
       ELSE conn.streams[conn_last.frame.id].remote.fc.window_size =
                conn_last.pre.stream.remote.fc.window_size - conn_last.frame.sz

StreamUntouched ==
    conn_last.frame.id \in StreamIds
        => conn.streams[conn_last.frame.id] = conn_last.pre.stream

\* C33: recv_data takes the payload from the connection's and from the
\* stream's receive window together or from neither: an accepted frame
\* reduced both by its size, a rejected frame left both as they were, in
\* particular one that fits the connection's window and not the stream's;
\* the connection's window never goes below zero, so the expect on the
\* connection-level claim does not fail.
C33_WindowsClaimedTogether ==
    /\ DataRead =>
           /\ ~conn.panicked
           /\ IF conn_last.ret = "Frame"
              THEN ConnectionClaimed = conn_last.frame.sz /\ StreamClaimed
              ELSE ConnectionClaimed = 0 /\ StreamUntouched
    /\ (DataOnOpenStream /\ ~OverConnectionWindow /\ OverStreamWindow) =>
           /\ conn_last.ret = "FlowControlError"
           /\ ConnectionClaimed = 0
    /\ conn.recv_flow_control.window_size >= 0

\* DATA that fits the connection's window and not its stream's was rejected
\* after an earlier frame had been taken from both windows
C33_Witness ==
    /\ DataOnOpenStream /\ ~OverConnectionWindow /\ OverStreamWindow
    /\ conn_last.ret = "FlowControlError"
    /\ ConnectionClaimed = 0
    /\ conn.recv_flow_control.window_size < InitWindow

----------------------------------------------------------------------------
(* The counts of active streams of the old Streams *)

\* the streams of one kind that have been opened and are not closed
ActiveStreams(local) ==
    {id \in StreamIds : /\ conn.streams[id] /= Vacant
                        /\ ~Stream_is_closed(conn.streams[id])
                        /\ Inner_is_local_init(conn, id) = local}

WithinLimit(n, max) == max /= NoLimit => n <= max

====
